---- MODULE Spec2Model ----
(***************************************************************************)
(* Provider dispatch engine of the WhatsApp bridge (src/whatsapp):         *)
(* provider registry and credential resolver (providers.js), the search    *)
(* aggregator (search.js) and the orchestrator askAI with its per-provider *)
(* attempts (ai.js); and the bot around it: the messages.upsert handler,   *)
(* the commands, the session cache (ai.js 211-412) and the SQLite store    *)
(* (database.js).                                                          *)
(*                                                                         *)
(* Spec runs one call of an exported function of the engine.  SpecBot runs *)
(* the bot: inbound messages, each handled by an async handler whose       *)
(* awaits are the points where other handlers take their steps.            *)
(*                                                                         *)
(* JavaScript values are modelled as follows.  null and undefined are the  *)
(* string NULL; a missing or empty secret is the empty string (the code    *)
(* only tests secrets for truthiness); a text built by concatenation or    *)
(* join is the sequence of its pieces; a plain-object lookup obj[key]      *)
(* also finds the properties inherited from Object.prototype.              *)
(***************************************************************************)
EXTENDS Integers, Sequences, FiniteSets, TLC

VARIABLES
    API_KEYS,       \* config.js API_KEYS: secret name -> "" (unset) or a secret
    chainTable,     \* the FALLBACK_CHAINS object as it is at run time
    op,             \* which exported function this run calls
    args,           \* the arguments of the call
    pc,             \* position of the call
    messages,       \* askAI: the canonical message list
    chain,          \* askAI: the local `chain` (line 128)
    idx,            \* askAI: position of the for..of loop over chain
    attempts,       \* every tryProvider invocation so far, with its result
    calls,          \* every outbound provider HTTP call so far
    inflight,       \* provider HTTP calls awaiting their response
    searchCalls,    \* every outbound search-backend HTTP call so far
    searchInflight, \* search-backend calls awaiting their response
    searchOutcome,  \* the last response a search backend gave
    searchResult,   \* what search() returned
    winner,         \* the candidate logged as the one that answered
    ret,            \* the string the call returned, or the error it raised
    listed,         \* what listAvailableProviders returned
    sessionCache,   \* the Map sessionCache: user -> cached session or Absent
    user_settings,  \* table user_settings: user -> row or NoRow
    conversations,  \* table conversations: the rows, in rowid order
    lastId,         \* the AUTOINCREMENT counter of conversations
    clock,          \* strftime('%s','now') of the latest insert, in seconds
    turn,           \* handler invocation -> its position and local variables
    outbound,       \* adapters called directly: every invocation so far
    reconnectAttempts, \* the module variable of line 322
    sock,           \* the socket of the latest connectWhatsApp call
    timers,         \* the delays of the pending setTimeout(connectWhatsApp)
    scheduled,      \* the delays of the reconnects scheduled since the last open
    connects        \* how often connectWhatsApp was called

botVars == <<sessionCache, user_settings, conversations, lastId, clock, turn>>

adapterVars == <<outbound>>

connVars == <<reconnectAttempts, sock, timers, scheduled, connects>>

vars == <<API_KEYS, chainTable, op, args, pc, messages, chain, idx, attempts,
          calls, inflight, searchCalls, searchInflight, searchOutcome, searchResult, winner,
          ret, listed, botVars, adapterVars, connVars>>

NULL == "null"

\* JavaScript truthiness of a string-or-null value.
Truthy(v) == v \notin {NULL, ""}

\* Names every plain object inherits from Object.prototype (a sample).
ProtoKeys == {"constructor", "toString"}

-----------------------------------------------------------------------------
(* config.js *)

KeyNames == {"groq", "openrouter", "pollinations", "gemini", "cerebras",
             "sambanova", "cloudflare", "cloudflareAccount", "huggingface",
             "cohere", "siliconflow", "routeway", "tavily", "brave", "serper",
             "puter"}

SYSTEM_PROMPTS == [normal |-> "prompt:normal", reasoning |-> "prompt:reasoning",
                   search |-> "prompt:search"]

Cand(p, m) == [provider |-> p, model |-> m]

FALLBACK_CHAINS ==
    [normal |-> << Cand("groq", "llama-3.3-70b-versatile"),
                   Cand("groq", "llama-3.1-8b-instant"),
                   Cand("cerebras", "llama-3.3-70b"),
                   Cand("sambanova", "Meta-Llama-3.3-70B-Instruct"),
                   Cand("openrouter", "openrouter/free"),
                   Cand("openrouter", "meta-llama/llama-3.3-70b-instruct:free"),
                   Cand("pollinations", "openai"),
                   Cand("pollinations", "gemini"),
                   Cand("cloudflare", "@cf/meta/llama-3.1-8b-instruct"),
                   Cand("puter", "gpt-4o-mini"),
                   Cand("mlvoca", "tinyllama") >>,
     reasoning |-> << Cand("groq", "deepseek-r1-distill-llama-70b"),
                      Cand("groq", "qwen-qwq-32b"),
                      Cand("groq", "openai/gpt-oss-120b"),
                      Cand("cerebras", "gpt-oss-120b"),
                      Cand("sambanova", "DeepSeek-R1"),
                      Cand("openrouter", "deepseek/deepseek-r1-zero:free"),
                      Cand("pollinations", "perplexity-reasoning"),
                      Cand("routeway", "deepseek-r1:free") >>,
     search |-> << Cand("duckduckgo", NULL),
                   Cand("tavily", NULL),
                   Cand("brave", NULL),
                   Cand("serper", NULL) >>]

-----------------------------------------------------------------------------
(* providers.js *)

\* Object.keys(PROVIDERS), in declaration order.
ProviderOrder == << "groq", "openrouter", "pollinations", "gemini", "cerebras",
                    "sambanova", "cloudflare", "huggingface", "cohere",
                    "siliconflow", "routeway", "mlvoca", "puter" >>

ProviderNames == {ProviderOrder[i] : i \in 1..Len(ProviderOrder)}

\* PROVIDERS[name].models
ProviderModels ==
    [groq |-> << "compound-beta", "compound-beta-mini",
                 "llama-3.3-70b-versatile", "llama-3.1-8b-instant",
                 "openai/gpt-oss-120b", "openai/gpt-oss-20b",
                 "meta-llama/llama-4-maverick-17b-128e-instruct",
                 "meta-llama/llama-4-scout-17b-16e-instruct",
                 "qwen-qwq-32b", "deepseek-r1-distill-llama-70b",
                 "moonshotai/kimi-k2-instruct-0905", "qwen/qwen-3-32b",
                 "whisper-large-v3", "whisper-large-v3-turbo" >>,
     openrouter |-> << "openrouter/free",
                 "meta-llama/llama-4-maverick:free", "meta-llama/llama-4-scout:free",
                 "meta-llama/llama-3.3-70b-instruct:free",
                 "deepseek/deepseek-chat-v3-0324:free", "deepseek/deepseek-v3-base:free",
                 "deepseek/deepseek-r1-zero:free",
                 "mistralai/mistral-small-3.1-24b-instruct:free",
                 "nvidia/llama-3.1-nemotron-nano-8b-v1:free",
                 "qwen/qwen3-coder:free", "stepfun/step-3.5-flash:free",
                 "google/gemini-2.5-pro-exp-03-25:free",
                 "qwen/qwen3-next-80b-a3b-instruct:free",
                 "nvidia/nemotron-3-nano-30b-a3b:free",
                 "arcee-ai/trinity-large-preview:free", "arcee-ai/trinity-mini:free",
                 "zhipuai/glm-4.5-air:free",
                 "openrouter/optimus-alpha", "openrouter/quasar-alpha" >>,
     pollinations |-> << "openai", "openai-fast", "openai-large",
                 "gemini", "gemini-fast", "gemini-large", "gemini-search",
                 "deepseek", "claude", "claude-fast", "claude-large",
                 "mistral", "grok", "qwen-coder", "kimi", "glm", "minimax",
                 "perplexity-fast", "perplexity-reasoning" >>,
     gemini |-> << "gemini-2.5-pro", "gemini-2.5-flash",
                 "gemini-2.5-flash-lite-preview-06-17",
                 "gemma-3-27b-it", "gemma-2-9b-it" >>,
     cerebras |-> << "llama3.1-8b", "llama-3.3-70b",
                 "qwen-3-32b", "qwen-3-235b-a22b-instruct-2507",
                 "gpt-oss-120b", "zai-glm-4.6", "zai-glm-4.7" >>,
     sambanova |-> << "Meta-Llama-3.1-8B-Instruct", "Meta-Llama-3.3-70B-Instruct",
                 "Llama-4-Scout-17B-16E-Instruct", "Llama-4-Maverick-17B-128E-Instruct",
                 "DeepSeek-R1", "DeepSeek-R1-Distill-Llama-70B", "DeepSeek-V3-0324",
                 "Qwen3-32B", "QwQ-32B", "gpt-oss-120b" >>,
     cloudflare |-> << "@cf/meta/llama-4-scout-17b-16e-instruct",
                 "@cf/meta/llama-3.3-70b-instruct-fp8-fast",
                 "@cf/meta/llama-3.1-8b-instruct",
                 "@cf/mistralai/mistral-small-3.1-24b-instruct",
                 "@cf/google/gemma-3-12b-it",
                 "@cf/openai/gpt-oss-120b", "@cf/openai/gpt-oss-20b" >>,
     huggingface |-> << "deepseek-ai/DeepSeek-R1", "deepseek-ai/DeepSeek-R1-0528",
                 "deepseek-ai/DeepSeek-R1-Distill-Qwen-7B",
                 "deepseek-ai/DeepSeek-R1-Distill-Llama-70B",
                 "meta-llama/Meta-Llama-3.1-8B-Instruct",
                 "mistralai/Mistral-7B-Instruct-v0.3",
                 "HuggingFaceH4/zephyr-7b-beta" >>,
     cohere |-> << "command-a-08-2025", "command-r-plus-08-2024",
                 "command-r-08-2024", "command-r7b-12-2024" >>,
     siliconflow |-> << "Qwen/Qwen2.5-7B-Instruct", "Qwen/Qwen2.5-Coder-7B-Instruct",
                 "THUDM/GLM-4-9B-0414",
                 "deepseek-ai/DeepSeek-R1-Distill-Qwen-7B",
                 "deepseek-ai/DeepSeek-R1-Distill-Qwen-14B",
                 "deepseek-ai/DeepSeek-R1-Distill-Qwen-32B",
                 "Qwen/QwQ-32B",
                 "deepseek-ai/DeepSeek-R1-0528", "deepseek-ai/DeepSeek-R1",
                 "deepseek-ai/DeepSeek-V3-0324",
                 "Qwen/Qwen2.5-Coder-32B-Instruct", "Qwen/Qwen3-32B" >>,
     routeway |-> << "glm-4.6:free", "glm-4.5-air:free",
                 "deepseek-r1:free", "minimax-m2:free", "kimi-k2:free",
                 "deepseek-v3.1:free", "llama-3.3-70b-instruct:free",
                 "mistral-small-3:free" >>,
     mlvoca |-> << "tinyllama", "deepseek-r1:1.5b" >>,
     puter |-> << "gpt-4o", "gpt-4o-mini", "gpt-4.1-nano",
                 "claude-sonnet-4", "claude-3-5-sonnet",
                 "google/gemini-2.5-flash", "google/gemini-2.5-pro",
                 "deepseek/deepseek-r1", "deepseek/deepseek-chat",
                 "x-ai/grok-3", "x-ai/grok-3-mini",
                 "meta-llama/llama-3.3-70b-instruct",
                 "perplexity/sonar", "perplexity/sonar-pro" >>]

\* The two providers usable without a secret, as the code lists them.
AnonymousProviders == {"pollinations", "mlvoca"}

\* PROVIDERS[name]: "own" for a registered descriptor, "inherited" for a
\* property of Object.prototype (truthy, but without key() or models),
\* "undefined" otherwise.
PROVIDERS(name) ==
    IF name \in ProviderNames THEN "own"
    ELSE IF name \in ProtoKeys THEN "inherited"
    ELSE "undefined"

\* PROVIDERS[name].key() of a registered provider.
ProviderKey(keys, name) ==
    IF name = "mlvoca" THEN NULL
    ELSE IF name = "pollinations"
         THEN (IF Truthy(keys["pollinations"]) THEN keys["pollinations"] ELSE NULL)
    ELSE keys[name]

\* isProviderAvailable without the credential test.
isProviderAvailable_AnyRegistered(keys, name) ==
    IF PROVIDERS(name) = "undefined" THEN "false"
    ELSE IF name \in AnonymousProviders THEN "true"
    ELSE IF PROVIDERS(name) = "inherited" THEN "TypeError"
    ELSE "true"

\* isProviderAvailable with one anonymous provider missing from its list.
isProviderAvailable_OneAnonymous(keys, name) ==
    IF PROVIDERS(name) = "undefined" THEN "false"
    ELSE IF name \in {"pollinations"} THEN "true"
    ELSE IF PROVIDERS(name) = "inherited" THEN "TypeError"
    ELSE IF Truthy(ProviderKey(keys, name)) THEN "true" ELSE "false"

\* isProviderAvailable(name): "true", "false", or "TypeError" when p.key is
\* not a function.
isProviderAvailable(keys, name) ==
    IF PROVIDERS(name) = "undefined" THEN "false"
    ELSE IF name \in AnonymousProviders THEN "true"
    ELSE IF PROVIDERS(name) = "inherited" THEN "TypeError"
    ELSE IF Truthy(ProviderKey(keys, name)) THEN "true" ELSE "false"

\* listAvailableProviders()
listAvailableProviders(keys) ==
    LET keep(n) == isProviderAvailable(keys, n) = "true"
    IN  SelectSeq(ProviderOrder, keep)

-----------------------------------------------------------------------------
(* search.js *)

\* No result: search() and every backend return null for it.
None == <<>>

MaxResultsDefault == 5
TavilyContentCut == 200
JinaCut == 2000

SeqMin(a, b) == IF a <= b THEN a ELSE b

\* s.slice(0, n) of an array
Take(s, n) == SubSeq(s, 1, SeqMin(n, Len(s)))

\* lines.join(sep), as the sequence of its pieces
RECURSIVE Join(_, _)
Join(lines, sep) ==
    IF Len(lines) = 0 THEN <<>>
    ELSE IF Len(lines) = 1 THEN lines[1]
    ELSE lines[1] \o <<sep>> \o Join(Tail(lines), sep)

\* str.slice(0, n): a text is named, TextLen gives the length of the long
\* ones, and a text that was cut is followed by the mark of the cut.
TextLen == [short |-> 40, long |-> 300, page |-> 5000]
CutMark(n) == IF n = TavilyContentCut THEN "[0:200]" ELSE "[0:2000]"
Slice(text, n) ==
    IF text \in DOMAIN TextLen /\ TextLen[text] > n
    THEN <<text, CutMark(n)>> ELSE <<text>>

\* results.length > 0 ? results.join('\n\n') : null
JoinOrNull(lines) == IF Len(lines) > 0 THEN Join(lines, "\n\n") ELSE None

\* searchDDG: the flattening of a DuckDuckGo answer (lines 21-26)
RECURSIVE TopicLines(_)
TopicLines(topics) ==
    IF topics = <<>> THEN <<>>
    ELSE (IF Truthy(Head(topics).Text) THEN << <<"(dot) ", Head(topics).Text>> >> ELSE <<>>)
         \o TopicLines(Tail(topics))

searchDDG(data, maxResults) ==
    JoinOrNull((IF Truthy(data.Abstract) THEN << <<"(pin) ", data.Abstract>> >> ELSE <<>>)
               \o TopicLines(Take(data.RelatedTopics, maxResults)))

\* searchTavily with a credential: lines 34-39
RECURSIVE TavilyLines(_)
TavilyLines(rs) ==
    IF rs = <<>> THEN <<>>
    ELSE << <<"(dot) *", Head(rs).title, "*\n  ">> \o Slice(Head(rs).content, TavilyContentCut)
            \o <<"...\n  (link) ", Head(rs).url>> >>
         \o TavilyLines(Tail(rs))

searchTavily(data) ==
    JoinOrNull((IF Truthy(data.answer) THEN << <<"(pin) ", data.answer>> >> ELSE <<>>)
               \o TavilyLines(data.results))

\* searchBrave with a credential: lines 48-52
RECURSIVE BraveLines(_)
BraveLines(rs) ==
    IF rs = <<>> THEN <<>>
    ELSE << <<"(dot) *", Head(rs).title, "*\n  ", Head(rs).description,
              "\n  (link) ", Head(rs).url>> >>
         \o BraveLines(Tail(rs))

searchBrave(data) == JoinOrNull(BraveLines(data.results))

\* searchSerper with a credential: lines 61-66
RECURSIVE SerperLines(_)
SerperLines(rs) ==
    IF rs = <<>> THEN <<>>
    ELSE << <<"(dot) *", Head(rs).title, "*\n  ", Head(rs).snippet,
              "\n  (link) ", Head(rs).link>> >>
         \o SerperLines(Tail(rs))

searchSerper(data) ==
    JoinOrNull((IF data.answerBox.present
                THEN << <<"(pin) ", IF Truthy(data.answerBox.answer)
                                    THEN data.answerBox.answer
                                    ELSE data.answerBox.snippet>> >>
                ELSE <<>>)
               \o SerperLines(data.organic))

\* searchJina: data?.slice(0, 2000) || null
searchJina(data) == IF Truthy(data) THEN Slice(data, JinaCut) ELSE None

\* SearchBackend without the credential tests of the premium backends.
SearchBackend_NoCredentialTest(keys, engine) ==
    CASE engine = "duckduckgo" -> "duckduckgo"
      [] engine = "tavily" -> "tavily"
      [] engine = "brave" -> "brave"
      [] engine = "serper" -> "serper"
      [] engine = "jina" -> "jina"
      [] OTHER -> "duckduckgo"

\* The backend search(query, engine) sends its one HTTP request to: the
\* engine dispatch of search (lines 6-11) followed by the credential test
\* that opens searchTavily, searchBrave and searchSerper.
SearchBackend(keys, engine) ==
    CASE engine = "duckduckgo" -> "duckduckgo"
      [] engine = "tavily" -> IF Truthy(keys["tavily"]) THEN "tavily" ELSE "duckduckgo"
      [] engine = "brave" -> IF Truthy(keys["brave"]) THEN "brave" ELSE "duckduckgo"
      [] engine = "serper" -> IF Truthy(keys["serper"]) THEN "serper" ELSE "duckduckgo"
      [] engine = "jina" -> "jina"
      [] OTHER -> "duckduckgo"

\* What the backend's function returns for the response body `data`.
Flatten(backend, data, maxResults) ==
    CASE backend = "duckduckgo" -> searchDDG(data, maxResults)
      [] backend = "tavily" -> searchTavily(data)
      [] backend = "brave" -> searchBrave(data)
      [] backend = "serper" -> searchSerper(data)
      [] backend = "jina" -> searchJina(data)

\* Response bodies the backends are taken to answer with.
Topic(t) == [Text |-> t]
DDGBodies ==
    { [Abstract |-> "", RelatedTopics |-> <<>>],
      [Abstract |-> "abstract", RelatedTopics |-> <<>>],
      [Abstract |-> "", RelatedTopics |-> <<Topic("t1"), Topic(""), Topic("t3")>>],
      [Abstract |-> "abstract",
       RelatedTopics |-> <<Topic("t1"), Topic("t2"), Topic("t3"), Topic("t4"),
                           Topic("t5"), Topic("t6")>>] }
TavilyBodies ==
    { [answer |-> "", results |-> <<>>],
      [answer |-> "answer", results |-> <<>>],
      [answer |-> "", results |-> <<[title |-> "T", content |-> "long", url |-> "u"],
                                    [title |-> "T2", content |-> "short", url |-> "u2"]>>] }
BraveBodies ==
    { [results |-> <<>>],
      [results |-> <<[title |-> "T", description |-> "d", url |-> "u"]>>] }
SerperBodies ==
    { [answerBox |-> [present |-> FALSE, answer |-> "", snippet |-> ""], organic |-> <<>>],
      [answerBox |-> [present |-> TRUE, answer |-> "", snippet |-> "snip"], organic |-> <<>>],
      [answerBox |-> [present |-> TRUE, answer |-> "answer", snippet |-> "snip"],
       organic |-> <<[title |-> "T", snippet |-> "s", link |-> "l"]>>] }
JinaBodies == {"", "short", "page"}

Bodies(backend) ==
    CASE backend = "duckduckgo" -> DDGBodies
      [] backend = "tavily" -> TavilyBodies
      [] backend = "brave" -> BraveBodies
      [] backend = "serper" -> SerperBodies
      [] backend = "jina" -> JinaBodies

-----------------------------------------------------------------------------
(* ai.js: askAI and tryProvider *)

APOLOGY == "Maaf, semua provider tidak tersedia saat ini."

HistoryWindow == 8

Msg(role, content) == [role |-> role, content |-> content]

\* chatHistory.slice(-8)
LastN(s, n) == IF Len(s) <= n THEN s ELSE SubSeq(s, Len(s) - n + 1, Len(s))

\* SYSTEM_PROMPTS[mode] || SYSTEM_PROMPTS.normal
SystemPromptOf(mode) ==
    IF mode \in DOMAIN SYSTEM_PROMPTS THEN SYSTEM_PROMPTS[mode]
    ELSE IF mode \in ProtoKeys THEN "[inherited property]"
    ELSE SYSTEM_PROMPTS["normal"]

\* FALLBACK_CHAINS[mode] || FALLBACK_CHAINS.normal, with whether for..of can
\* iterate the value
ChainOf(table, mode) ==
    IF mode \in DOMAIN table THEN [iterable |-> TRUE, items |-> table[mode]]
    ELSE IF mode \in ProtoKeys THEN [iterable |-> FALSE, items |-> <<>>]
    ELSE [iterable |-> TRUE, items |-> table["normal"]]

\* The part of tryProvider(providerName, model) that runs before its HTTP
\* request: "null" when it returns null without a request, "call" when the
\* adapter sends the request, "TypeError" when provider.key is no function.
tryProvider(keys, providerName) ==
    IF PROVIDERS(providerName) = "undefined" THEN "null"
    ELSE IF PROVIDERS(providerName) = "inherited" THEN "TypeError"
    ELSE IF ~Truthy(ProviderKey(keys, providerName))
            /\ providerName \notin {"pollinations", "mlvoca"} THEN "null"
    ELSE IF providerName = "gemini"
         THEN (IF Truthy(keys["gemini"]) THEN "call" ELSE "null")
    ELSE IF providerName = "cohere"
         THEN (IF Truthy(keys["cohere"]) THEN "call" ELSE "null")
    ELSE IF providerName = "cloudflare"
         THEN (IF Truthy(keys["cloudflare"]) /\ Truthy(keys["cloudflareAccount"])
               THEN "call" ELSE "null")
    ELSE IF providerName = "mlvoca" THEN "call"
    ELSE IF providerName = "puter"
         THEN (IF Truthy(keys["puter"]) THEN "call" ELSE "null")
    ELSE "call"

\* What an HTTP request to a provider can end with: an error (status,
\* timeout, malformed body), or a body whose reply field is absent, empty
\* or a text.
ReplyTexts == {"hi there", "ok"}
Responses == {[status |-> "error", content |-> NULL],
              [status |-> "ok", content |-> NULL],
              [status |-> "ok", content |-> ""]}
             \cup {[status |-> "ok", content |-> t] : t \in ReplyTexts}

\* The value tryProvider returns for a response: the adapter's
\* `<reply field> || null`, and null from the catch block.
ResultOf(resp) ==
    IF resp.status = "error" THEN NULL
    ELSE IF Truthy(resp.content) THEN resp.content ELSE NULL

Attempt(cand, via, pos, called, result) ==
    [provider |-> cand.provider, model |-> cand.model, via |-> via, pos |-> pos,
     called |-> called, result |-> result]

-----------------------------------------------------------------------------
(* ai.js 211-412 and database.js: the bot's values *)

Users == {"u1", "u2"}

\* The invocations of the messages.upsert handler in a run, one for each
\* inbound message: h1 for the message that arrives first.
Handlers == {"h1", "h2"}

\* config.js DEFAULTS, with DEFAULT_PROVIDER and DEFAULT_MODEL unset
DEFAULTS == [provider |-> "groq", model |-> "llama-3.3-70b-versatile",
             mode |-> "normal"]

Session(provider, model, mode) ==
    [provider |-> provider, model |-> model, mode |-> mode]

\* sessionCache.has(userId) is false
Absent == Session(NULL, NULL, NULL)

\* getSettings resolves null: the user has no row in user_settings
NoRow == Session(NULL, NULL, NULL)

\* A row of table conversations.
Row(id, user_id, role, content, timestamp) ==
    [id |-> id, user_id |-> user_id, role |-> role, content |-> content,
     timestamp |-> timestamp]

ERROR_TEXT == <<"(x) Terjadi kesalahan.">>

HistoryLimit == 10

RowSet(rows) == {rows[i] : i \in DOMAIN rows}

RECURSIVE Orderings(_)
Orderings(S) ==
    IF S = {} THEN {<<>>}
    ELSE UNION {{<<x>> \o t : t \in Orderings(S \ {x})} : x \in S}

\* ORDER BY timestamp DESC: the rows by falling timestamp.  The clock has
\* a resolution of a second and the query names no second key, so rows of
\* one second come in an order SQL leaves open.
RECURSIVE DescByTimestamp(_)
DescByTimestamp(R) ==
    IF R = {} THEN {<<>>}
    ELSE LET top == CHOOSE t \in {r.timestamp : r \in R} :
                        \A r \in R : r.timestamp <= t
             G == {r \in R : r.timestamp = top}
         IN  {g \o t : g \in Orderings(G), t \in DescByTimestamp(R \ G)}

Reverse(s) == [i \in 1..Len(s) |-> s[Len(s) + 1 - i]]

\* database.js getHistory(userId, limit): what the promise can resolve to,
\* SELECT role, content ... ORDER BY timestamp DESC LIMIT ?, reversed.
getHistory(rows, userId, limit) ==
    LET mine == {r \in RowSet(rows) : r.user_id = userId}
    IN  {LET picked == Reverse(Take(o, limit))
         IN  [i \in 1..Len(picked) |-> Msg(picked[i].role, picked[i].content)] :
            o \in DescByTimestamp(mine)}

\* database.js getStats(userId): COUNT(*)
getStats(rows, userId) == Cardinality({r \in RowSet(rows) : r.user_id = userId})

\* getSession lines 228-232: the session built from the row that was read
SessionFrom(dbSettings) ==
    Session(IF Truthy(dbSettings.provider) THEN dbSettings.provider
            ELSE DEFAULTS.provider,
            IF Truthy(dbSettings.model) THEN dbSettings.model
            ELSE DEFAULTS.model,
            IF Truthy(dbSettings.mode) THEN dbSettings.mode
            ELSE DEFAULTS.mode)

\* String.prototype.toLowerCase on the words the inbound texts use
ToLower(s) ==
    CASE s = "!MODE" -> "!mode"
      [] s = "SEARCH" -> "search"
      [] s = "Groq" -> "groq"
      [] OTHER -> s

\* The words of the inbound texts that begin with the command marker.
BangWords == {"!help", "!status", "!stats", "!clear", "!mode", "!MODE",
              "!search", "!set", "!foo"}

\* StartsWithBang for a handler that sends no text to handleCommand.
StartsWithBang_Never(text) == FALSE

\* text.startsWith('!')
StartsWithBang(text) == Len(text) > 0 /\ text[1] \in BangWords

\* m.includes(modelName) for the model names the inbound texts use: the
\* registered model identifiers that contain the name as a substring.
Includes(m, modelName) ==
    \/ m = modelName
    \/ /\ modelName = "llama"
       /\ m \in {"llama-3.3-70b-versatile", "llama-3.1-8b-instant",
                 "meta-llama/llama-4-maverick-17b-128e-instruct",
                 "meta-llama/llama-4-scout-17b-16e-instruct",
                 "deepseek-r1-distill-llama-70b"}
    \/ /\ modelName = "deepseek-ai/DeepSeek-R1"
       /\ m \in {"deepseek-ai/DeepSeek-R1-Distill-Qwen-7B",
                 "deepseek-ai/DeepSeek-R1-Distill-Qwen-14B",
                 "deepseek-ai/DeepSeek-R1-Distill-Qwen-32B",
                 "deepseek-ai/DeepSeek-R1-0528", "deepseek-ai/DeepSeek-R1"}

\* FindModel that takes the name as typed.
FindModel_AsTyped(models, modelName) == modelName

\* provider.models.find(m => m === modelName || m.includes(modelName)):
\* the first match in list order, NULL for undefined
FindModel(models, modelName) ==
    LET hits == {i \in DOMAIN models : Includes(models[i], modelName)}
    IN  IF hits = {} THEN NULL
        ELSE models[CHOOSE i \in hits : \A j \in hits : i <= j]

ValidModes == {"normal", "search", "reasoning"}

\* The replies of handleCommand, as the sequences of their pieces.
HelpReply(session) ==
    <<"*Claw AI - WhatsApp Bot* ... *Aktif:* ", session.provider, " / ",
      session.model, " / ", session.mode>>
StatusReply(session, total, available) ==
    <<"*Status* Provider: ", session.provider, " Model: ", session.model,
      " Mode: ", session.mode, " Messages: ", ToString(total),
      " Available: ", ToString(Len(available)), " providers">>
StatsReply(total) ==
    <<"*Chat Statistics* Total messages: ", ToString(total)>>
ClearReply == <<"History dihapus! (Settings tetap tersimpan)">>
ModeShowReply(session) ==
    <<"Mode aktif: *", session.mode, "* Pilihan: normal, search, reasoning">>
ModeInvalidReply == <<"(x) Mode tidak valid.">>
ModeSetReply(mode) == <<"(ok) Mode: *", mode, "*">>
SearchUsageReply == <<"(x) Contoh: !search cuaca jakarta">>
SearchReply(result) ==
    IF result # None THEN <<"*Hasil:*\n\n">> \o result
    ELSE <<"(x) Tidak ada hasil.">>
ProviderListReply(keys, session) ==
    <<"*Provider Tersedia:*">>
    \o Join([i \in 1..Len(listAvailableProviders(keys)) |->
                LET name == listAvailableProviders(keys)[i]
                IN  <<name, IF session.provider = name THEN " (active)" ELSE "",
                      " (", ToString(Len(ProviderModels[name])), " model)">>],
            "\n")
ModelListReply(providerName, session) ==
    <<"*Model di ", providerName, ":*">>
    \o Join([i \in 1..Len(Take(ProviderModels[providerName], 20)) |->
                LET m == ProviderModels[providerName][i]
                IN  <<ToString(i), ". ", m,
                      IF session.provider = providerName /\ session.model = m
                      THEN " (active)" ELSE "">>],
            "\n")
    \o (IF Len(ProviderModels[providerName]) > 20
        THEN <<"...dan ", ToString(Len(ProviderModels[providerName]) - 20),
               " lainnya">>
        ELSE <<>>)
NoProviderReply(providerName) == <<"(x) Provider tidak ada: ", providerName>>
NoModelReply(modelName) == <<"(x) Model tidak ada: ", modelName>>
SetReply(providerName, validModel) ==
    <<"(ok) *Provider & Model Updated!* Provider: ", providerName,
      " Model: ", validModel, " History: TETAP TERSIMPAN">>

\* What search(query) can return: none, or the flattening of an answer of
\* the backend it asks.
SearchResults(keys) ==
    LET backend == SearchBackend(keys, "duckduckgo")
    IN  {None} \cup {Flatten(backend, d, MaxResultsDefault) : d \in Bodies(backend)}

\* The environment of the bot's runs: a provider that answers says
\* "hi there", and a search that finds something finds an abstract.
BotReplyTexts == {"hi there"}
BotSearchResults ==
    {None, searchDDG([Abstract |-> "abstract", RelatedTopics |-> <<>>],
                     MaxResultsDefault)}

\* askAI as the bot sees it: the ways one call can end when the providers
\* that answer give a text of `texts`.  kind is "return" or "TypeError";
\* failed counts the candidates that were tried and gave no text before the
\* call ended.
Outcome(kind, reply, failed) == [kind |-> kind, reply |-> reply, failed |-> failed]

\* Lines 129-138: the scan of the chain from position k on.
RECURSIVE ChainOutcomes(_, _, _, _, _)
ChainOutcomes(keys, items, k, failed, texts) ==
    IF k > Len(items) THEN {Outcome("return", APOLOGY, failed)}
    ELSE LET avail == isProviderAvailable(keys, items[k].provider)
             t == tryProvider(keys, items[k].provider)
         IN  IF avail = "TypeError" THEN {Outcome("TypeError", NULL, failed)}
             ELSE IF avail = "false"
                  THEN ChainOutcomes(keys, items, k + 1, failed, texts)
             ELSE IF t = "call"
                  THEN {Outcome("return", x, failed) : x \in texts}
                       \cup ChainOutcomes(keys, items, k + 1, failed + 1, texts)
             ELSE IF t = "null"
                  THEN ChainOutcomes(keys, items, k + 1, failed + 1, texts)
             ELSE {Outcome("TypeError", NULL, failed)}

\* Lines 119-138: the override, then the chain of the mode.
DispatchOutcomes(keys, table, texts, selectedProvider, selectedModel, mode) ==
    LET c == ChainOf(table, mode)
        scan(failed) == IF c.iterable
                        THEN ChainOutcomes(keys, c.items, 1, failed, texts)
                        ELSE {Outcome("TypeError", NULL, failed)}
    IN  IF ~Truthy(selectedProvider) \/ ~Truthy(selectedModel) THEN scan(0)
        ELSE LET avail == isProviderAvailable(keys, selectedProvider)
                 t == tryProvider(keys, selectedProvider)
             IN  IF avail = "TypeError" THEN {Outcome("TypeError", NULL, 0)}
                 ELSE IF avail = "false" THEN scan(0)
                 ELSE IF t = "call"
                      THEN {Outcome("return", x, 0) : x \in texts} \cup scan(1)
                 ELSE IF t = "null" THEN scan(1)
                 ELSE {Outcome("TypeError", NULL, 0)}

\* One handler invocation (one inbound message): where it is, and its
\* local variables.  steps, before and overlapped record what happened.
IdleTurn ==
    [pc |-> "idle", from |-> NULL, text |-> <<>>, fromMe |-> FALSE,
     caller |-> "none",
     session |-> Absent, dbSettings |-> NoRow, save |-> Absent,
     history |-> <<>>, messages |-> <<>>, reply |-> <<>>, failed |-> 0,
     sent |-> <<>>, steps |-> <<>>, before |-> <<>>, overlapped |-> {},
     event |-> <<>>]

-----------------------------------------------------------------------------
(* The inputs: credential configurations and call arguments *)

MaxKeys == 1
MaxHistory == 9

\* The secrets that are set: any at most MaxKeys of them, and a few larger
\* sets (a provider that needs two secrets, the search backends, all).
LargerKeySets == {{"cloudflare", "cloudflareAccount"},
                  {"groq", "cerebras", "puter", "routeway"},
                  {"tavily", "brave", "serper"},
                  KeyNames}
KeyConfigs ==
    {[k \in KeyNames |-> IF k \in S THEN "secret" ELSE ""] :
        S \in {T \in SUBSET KeyNames : Cardinality(T) <= MaxKeys} \cup LargerKeySets}

Ops == {"askAI", "search", "isProviderAvailable", "listAvailableProviders"}

Modes == {"normal", "reasoning", "search", "creative", "constructor"}

Overrides == {Cand(NULL, NULL),
              Cand("groq", "llama-3.3-70b-versatile"),
              Cand("groq", NULL),
              Cand("gemini", "gemini-2.5-flash"),
              Cand("cloudflare", "@cf/meta/llama-3.1-8b-instruct"),
              Cand("mlvoca", "tinyllama"),
              Cand("duckduckgo", "x"),
              Cand("constructor", "x")}

\* A stored history of n rows, oldest first.
TurnText == <<"t1", "t2", "t3", "t4", "t5", "t6", "t7", "t8", "t9", "t10", "t11", "t12">>
HistoryRow(i) == Msg(IF i % 2 = 1 THEN "user" ELSE "assistant", <<TurnText[i]>>)
History(n) == [i \in 1..n |-> HistoryRow(i)]
Histories == {History(0), History(MaxHistory)}

Engines == {"duckduckgo", "tavily", "brave", "serper", "jina", "bing"}

Names == ProviderNames \cup ProtoKeys \cup {"duckduckgo", "tavily", "unknown", ""}

NoArgs == [userMessage |-> NULL, useSearch |-> FALSE, selectedProvider |-> NULL,
           selectedModel |-> NULL, chatHistory |-> <<>>, mode |-> "normal",
           query |-> NULL, engine |-> "duckduckgo", name |-> NULL]

ArgsOf(o) ==
    CASE o = "askAI" ->
           {[NoArgs EXCEPT !.userMessage = "hello", !.useSearch = s,
                           !.selectedProvider = c.provider, !.selectedModel = c.model,
                           !.chatHistory = h, !.mode = m] :
              s \in BOOLEAN, c \in Overrides, h \in Histories, m \in Modes}
      [] o = "search" ->
           {[NoArgs EXCEPT !.query = "weather today", !.engine = e] : e \in Engines}
      [] o = "isProviderAvailable" ->
           {[NoArgs EXCEPT !.name = n] : n \in Names}
      [] o = "listAvailableProviders" -> {NoArgs}

\* The bot's inputs.  The store's clock advances by at most MaxTicks
\* seconds in a run.
MaxTicks == 1

\* What the store holds when the process starts: nothing, or MaxHistory
\* rows of user u1, one per second, and a settings row of u1.
StoredRows ==
    [i \in 1..MaxHistory |->
        Row(i, "u1", HistoryRow(i).role, HistoryRow(i).content, i)]
StoredSettings == Session("cerebras", "llama-3.3-70b", "search")
Stores ==
    {[conversations |-> <<>>, user_settings |-> [u \in Users |-> NoRow]],
     [conversations |-> StoredRows,
      user_settings |-> [u \in Users |-> IF u = "u1" THEN StoredSettings ELSE NoRow]]}
StartClock == MaxHistory + 1

\* The bot's credential configuration: no secret is set, so that the two
\* providers that need none are the ones that can answer.
BotKeys == [k \in KeyNames |-> ""]

\* An inbound message: msg.key.remoteJid, the words of its text (none for
\* an empty or blank text) and msg.key.fromMe.
Inbound(from, text, fromMe) == [from |-> from, text |-> text, fromMe |-> fromMe]
Texts ==
    {<<"hello">>, <<"!foo">>, <<"!help">>, <<"!status">>, <<"!stats">>,
     <<"!clear">>, <<"!mode">>, <<"!MODE", "SEARCH">>, <<"!mode", "reasoning">>,
     <<"!mode", "bogus">>, <<"!search">>, <<"!search", "weather">>,
     <<"!set">>, <<"!set", "Groq">>, <<"!set", "nope">>,
     <<"!set", "constructor", "x">>,
     <<"!set", "cerebras", "llama-3.3-70b">>, <<"!set", "groq", "llama">>,
     <<"!set", "groq", "nope">>,
     <<"!set", "siliconflow", "deepseek-ai/DeepSeek-R1">>}
InboundMessages ==
    {Inbound("u1", text, FALSE) : text \in Texts \cup {<<>>}}
    \cup {Inbound("u1", <<"hello">>, TRUE)}
    \cup {Inbound("u2", text, FALSE) : text \in {<<"hello">>, <<"!mode", "reasoning">>}}

\* The `messages` array of a messages.upsert event: one message, or
\* several that arrived together.
UpsertEvents ==
    {<<m>> : m \in InboundMessages}
    \cup {<<Inbound("u2", <<"!mode", "reasoning">>, FALSE),
            Inbound("u2", <<"hello">>, FALSE)>>,
          <<Inbound("u1", <<"hello">>, TRUE), Inbound("u1", <<"hello">>, FALSE)>>}

\* The engine at rest, while the bot runs.
EngineIdle ==
    /\ chainTable = FALLBACK_CHAINS
    /\ op = "bot"
    /\ args = NoArgs
    /\ pc = "start"
    /\ messages = <<>>
    /\ chain = [iterable |-> TRUE, items |-> <<>>]
    /\ idx = 0
    /\ attempts = <<>>
    /\ calls = <<>>
    /\ inflight = {}
    /\ searchCalls = <<>>
    /\ searchInflight = {}
    /\ searchOutcome = [status |-> "none", data |-> NULL]
    /\ searchResult = None
    /\ winner = Cand(NULL, NULL)
    /\ ret = NULL
    /\ listed = <<>>

\* The bot at rest, while one function of the engine is called.
\* A socket: where it is in its life, the status code of its close (0
\* while it has none) and whether a QR code was printed for it.
Socket(state, statusCode, qr) == [state |-> state, statusCode |-> statusCode, qr |-> qr]

\* connectWhatsApp has not been called.
ConnIdle ==
    /\ reconnectAttempts = 0
    /\ sock = Socket("none", 0, FALSE)
    /\ timers = <<>>
    /\ scheduled = <<>>
    /\ connects = 0

BotIdle ==
    /\ ConnIdle
    /\ sessionCache = [u \in Users |-> Absent]
    /\ user_settings = [u \in Users |-> NoRow]
    /\ conversations = <<>>
    /\ lastId = 0
    /\ clock = StartClock
    /\ turn = [h \in Handlers |-> IdleTurn]
    /\ outbound = <<>>

\* The process after start: nothing cached, no handler under way.
BotInit ==
    /\ EngineIdle
    /\ ConnIdle
    /\ API_KEYS = BotKeys
    /\ sessionCache = [u \in Users |-> Absent]
    /\ \E s \in Stores :
          /\ user_settings = s.user_settings
          /\ conversations = s.conversations
          /\ lastId = Len(s.conversations)
    /\ clock = StartClock
    /\ turn = [h \in Handlers |-> IdleTurn]
    /\ outbound = <<>>

Init ==
    /\ BotIdle
    /\ API_KEYS \in KeyConfigs
    /\ chainTable = FALLBACK_CHAINS
    /\ op \in Ops
    /\ args \in ArgsOf(op)
    /\ pc = "start"
    /\ messages = <<>>
    /\ chain = [iterable |-> TRUE, items |-> <<>>]
    /\ idx = 0
    /\ attempts = <<>>
    /\ calls = <<>>
    /\ inflight = {}
    /\ searchCalls = <<>>
    /\ searchInflight = {}
    /\ searchOutcome = [status |-> "none", data |-> NULL]
    /\ searchResult = None
    /\ winner = Cand(NULL, NULL)
    /\ ret = NULL
    /\ listed = <<>>

-----------------------------------------------------------------------------
(* providers.js, called directly *)

Call_isProviderAvailable ==
    /\ op = "isProviderAvailable" /\ pc = "start"
    /\ ret' = isProviderAvailable(API_KEYS, args.name)
    /\ pc' = IF ret' = "TypeError" THEN "thrown" ELSE "done"
    /\ UNCHANGED <<connVars, adapterVars, botVars, API_KEYS, chainTable, op, args, messages, chain, idx, attempts,
                   calls, inflight, searchCalls, searchInflight, searchOutcome, searchResult,
                   winner, listed>>

Call_listAvailableProviders ==
    /\ op = "listAvailableProviders" /\ pc = "start"
    /\ listed' = listAvailableProviders(API_KEYS)
    /\ pc' = "done"
    /\ UNCHANGED <<connVars, adapterVars, botVars, API_KEYS, chainTable, op, args, messages, chain, idx, attempts,
                   calls, inflight, searchCalls, searchInflight, searchOutcome, searchResult,
                   winner, ret>>

-----------------------------------------------------------------------------
(* search(query, engine = 'duckduckgo', maxResults = 5) *)

\* askAI (line 111) and the !search command pass the query alone.
EngineOfCall == IF op = "search" THEN args.engine ELSE "duckduckgo"

\* search up to its backend's HTTP request.
Search_Request ==
    /\ \/ op = "search" /\ pc = "start"
       \/ op = "askAI" /\ pc = "search"
    /\ LET backend == SearchBackend(API_KEYS, EngineOfCall)
       IN  /\ searchCalls' = Append(searchCalls, backend)
           /\ searchInflight' = searchInflight \cup {backend}
    /\ pc' = "search.wait"
    /\ UNCHANGED <<connVars, adapterVars, botVars, API_KEYS, chainTable, op, args, messages, chain, idx, attempts,
                   calls, inflight, searchOutcome, searchResult, winner, ret, listed>>

\* WithSearchAndUser with the search context put right after the first
\* message, before the history.
WithSearchAndUser_ContextFirst(msgs, result, userMessage) ==
    (IF result # None
     THEN <<Head(msgs), Msg("system", <<"Hasil pencarian:\n">> \o result)>>
          \o Tail(msgs)
     ELSE msgs)
    \o << Msg("user", <<userMessage>>) >>

\* WithSearchAndUser without the test of line 112: the search context is
\* pushed whatever the search returned.
WithSearchAndUser_AlwaysPush(msgs, result, userMessage) ==
    Append(msgs, Msg("system", <<"Hasil pencarian:\n">> \o result))
    \o << Msg("user", <<userMessage>>) >>

\* messages.push(search context) if any, then messages.push(user): 112-117
WithSearchAndUser(msgs, result, userMessage) ==
    (IF result # None
     THEN Append(msgs, Msg("system", <<"Hasil pencarian:\n">> \o result))
     ELSE msgs)
    \o << Msg("user", <<userMessage>>) >>

\* The backend answers or fails; search returns the flattened text, or null
\* from its catch block.  In askAI the turn goes on to line 112.
Search_Response ==
    /\ pc = "search.wait"
    /\ \E backend \in searchInflight :
       \E status \in {"ok", "error"}, data \in Bodies(backend) :
          LET result == IF status = "error" THEN None
                        ELSE Flatten(backend, data, MaxResultsDefault)
          IN  /\ searchInflight' = searchInflight \ {backend}
              /\ searchOutcome' = [status |-> status,
                                   data |-> IF status = "error" THEN NULL ELSE data]
              /\ searchResult' = result
              /\ IF op = "askAI"
                 THEN /\ messages' = WithSearchAndUser(messages, result, args.userMessage)
                      /\ pc' = "override"
                 ELSE /\ messages' = messages
                      /\ pc' = "done"
    /\ UNCHANGED <<connVars, adapterVars, botVars, API_KEYS, chainTable, op, args, chain, idx, attempts, calls,
                   inflight, searchCalls, winner, ret, listed>>

-----------------------------------------------------------------------------
(* askAI(userMessage, useSearch, selectedProvider, selectedModel,
         chatHistory, mode) *)

\* Lines 103-110: the system prompt and the history window; without a search
\* the user message follows at once (line 117).
AskAI_Compose ==
    /\ op = "askAI" /\ pc = "start"
    /\ LET base == << Msg("system", <<SystemPromptOf(args.mode)>>) >>
                   \o (IF Len(args.chatHistory) > 0
                       THEN LastN(args.chatHistory, HistoryWindow) ELSE <<>>)
       IN  IF args.useSearch \/ args.mode = "search"
           THEN /\ messages' = base
                /\ pc' = "search"
           ELSE /\ messages' = Append(base, Msg("user", <<args.userMessage>>))
                /\ pc' = "override"
    /\ UNCHANGED <<connVars, adapterVars, botVars, API_KEYS, chainTable, op, args, chain, idx, attempts, calls,
                   inflight, searchCalls, searchInflight, searchOutcome, searchResult, winner,
                   ret, listed>>

\* One invocation of tryProvider for cand, up to its HTTP request.  `next`
\* is where the turn goes on when tryProvider returns null at once.
StartAttempt(cand, via, pos, waitPc, next) ==
    LET t == tryProvider(API_KEYS, cand.provider)
    IN  IF t = "call"
        THEN /\ calls' = Append(calls, cand)
             /\ inflight' = inflight \cup {cand}
             /\ pc' = waitPc
             /\ UNCHANGED <<attempts, idx, ret>>
        ELSE IF t = "null"
        THEN /\ attempts' = Append(attempts, Attempt(cand, via, pos, FALSE, NULL))
             /\ pc' = next.pc
             /\ idx' = next.idx
             /\ UNCHANGED <<calls, inflight, ret>>
        ELSE /\ pc' = "thrown"
             /\ ret' = "TypeError"
             /\ UNCHANGED <<attempts, calls, inflight, idx>>

\* FinishAttempt without the return on a text: the scan goes on.
FinishAttempt_NoReturn(cand, via, pos, next) ==
    \E resp \in Responses :
       LET result == ResultOf(resp)
       IN  /\ attempts' = Append(attempts, Attempt(cand, via, pos, TRUE, result))
           /\ inflight' = inflight \ {cand}
           /\ winner' = IF Truthy(result) THEN cand ELSE winner
           /\ ret' = IF Truthy(result) THEN result ELSE ret
           /\ pc' = next.pc
           /\ idx' = next.idx

\* The response to the attempt's request: tryProvider returns the reply
\* text or null; a text ends the turn (lines 121-124 and 132-135).
FinishAttempt(cand, via, pos, next) ==
    \E resp \in Responses :
       LET result == ResultOf(resp)
       IN  /\ attempts' = Append(attempts, Attempt(cand, via, pos, TRUE, result))
           /\ inflight' = inflight \ {cand}
           /\ IF Truthy(result)
              THEN /\ winner' = cand
                   /\ ret' = result
                   /\ pc' = "done"
                   /\ idx' = idx
              ELSE /\ pc' = next.pc
                   /\ idx' = next.idx
                   /\ UNCHANGED <<winner, ret>>

Selected == Cand(args.selectedProvider, args.selectedModel)

OverrideTried == \E i \in DOMAIN attempts : attempts[i].via = "override"

\* Line 119-120: the pinned (provider, model), tried first when usable.
AskAI_Override ==
    /\ op = "askAI" /\ pc = "override"
    /\ IF ~Truthy(args.selectedProvider) \/ ~Truthy(args.selectedModel)
       THEN /\ pc' = "select"
            /\ UNCHANGED <<attempts, calls, inflight, idx, ret>>
       ELSE LET avail == isProviderAvailable(API_KEYS, args.selectedProvider)
            IN  IF avail = "true"
                THEN StartAttempt(Selected, "override", 0, "override.wait",
                                  [pc |-> "select", idx |-> idx])
                ELSE IF avail = "false"
                THEN /\ pc' = "select"
                     /\ UNCHANGED <<attempts, calls, inflight, idx, ret>>
                ELSE /\ pc' = "thrown"
                     /\ ret' = "TypeError"
                     /\ UNCHANGED <<attempts, calls, inflight, idx>>
    /\ UNCHANGED <<connVars, adapterVars, botVars, API_KEYS, chainTable, op, args, messages, chain, searchCalls,
                   searchInflight, searchOutcome, searchResult, winner, listed>>

\* Lines 120-125
AskAI_OverrideResponse ==
    /\ op = "askAI" /\ pc = "override.wait"
    /\ FinishAttempt(Selected, "override", 0, [pc |-> "select", idx |-> idx])
    /\ UNCHANGED <<connVars, adapterVars, botVars, API_KEYS, chainTable, op, args, messages, chain, calls,
                   searchCalls, searchInflight, searchOutcome, searchResult, listed>>

\* AskAI_SelectChain dropping the first entry when it is the override that
\* has just failed.
AskAI_SelectChain_DropsOverride ==
    /\ op = "askAI" /\ pc = "select"
    /\ chain' = ChainOf(chainTable, args.mode)
    /\ IF chain'.iterable
       THEN /\ pc' = "chain"
            /\ idx' = IF OverrideTried /\ Len(chain'.items) >= 1
                         /\ chain'.items[1] = Selected
                      THEN 2 ELSE 1
            /\ ret' = ret
       ELSE /\ pc' = "thrown"
            /\ ret' = "TypeError"
            /\ idx' = idx
    /\ UNCHANGED <<connVars, adapterVars, botVars, API_KEYS, chainTable, op, args, messages, attempts, calls,
                   inflight, searchCalls, searchInflight, searchOutcome, searchResult, winner,
                   listed>>

\* Line 128 and the start of the for..of loop over chain.
AskAI_SelectChain ==
    /\ op = "askAI" /\ pc = "select"
    /\ chain' = ChainOf(chainTable, args.mode)
    /\ IF chain'.iterable
       THEN /\ pc' = "chain"
            /\ idx' = 1
            /\ ret' = ret
       ELSE /\ pc' = "thrown"
            /\ ret' = "TypeError"
            /\ idx' = idx
    /\ UNCHANGED <<connVars, adapterVars, botVars, API_KEYS, chainTable, op, args, messages, attempts, calls,
                   inflight, searchCalls, searchInflight, searchOutcome, searchResult, winner,
                   listed>>

\* AskAI_ChainNext with `break` for `continue` at an unavailable candidate.
AskAI_ChainNext_BreakAtUnavailable ==
    /\ op = "askAI" /\ pc = "chain"
    /\ IF idx > Len(chain.items)
          \/ isProviderAvailable(API_KEYS, chain.items[idx].provider) = "false"
       THEN /\ ret' = APOLOGY
            /\ pc' = "done"
            /\ UNCHANGED <<attempts, calls, inflight, idx>>
       ELSE LET cand == chain.items[idx]
                avail == isProviderAvailable(API_KEYS, cand.provider)
            IN  IF avail = "true"
                THEN StartAttempt(cand, "chain", idx, "chain.wait",
                                  [pc |-> "chain", idx |-> idx + 1])
                ELSE /\ pc' = "thrown"
                     /\ ret' = "TypeError"
                     /\ UNCHANGED <<attempts, calls, inflight, idx>>
    /\ UNCHANGED <<connVars, adapterVars, botVars, API_KEYS, chainTable, op, args, messages, chain, searchCalls,
                   searchInflight, searchOutcome, searchResult, winner, listed>>

\* AskAI_ChainNext returning null, not the apology, when the chain is used up.
AskAI_ChainNext_ReturnsNull ==
    /\ op = "askAI" /\ pc = "chain"
    /\ IF idx > Len(chain.items)
       THEN /\ ret' = NULL
            /\ pc' = "done"
            /\ UNCHANGED <<attempts, calls, inflight, idx>>
       ELSE LET cand == chain.items[idx]
                avail == isProviderAvailable(API_KEYS, cand.provider)
            IN  IF avail = "true"
                THEN StartAttempt(cand, "chain", idx, "chain.wait",
                                  [pc |-> "chain", idx |-> idx + 1])
                ELSE IF avail = "false"
                THEN /\ idx' = idx + 1
                     /\ pc' = "chain"
                     /\ UNCHANGED <<attempts, calls, inflight, ret>>
                ELSE /\ pc' = "thrown"
                     /\ ret' = "TypeError"
                     /\ UNCHANGED <<attempts, calls, inflight, idx>>
    /\ UNCHANGED <<connVars, adapterVars, botVars, API_KEYS, chainTable, op, args, messages, chain, searchCalls,
                   searchInflight, searchOutcome, searchResult, winner, listed>>

\* One iteration of the loop (lines 129-131), or its end (line 138).
AskAI_ChainNext ==
    /\ op = "askAI" /\ pc = "chain"
    /\ IF idx > Len(chain.items)
       THEN /\ ret' = APOLOGY
            /\ pc' = "done"
            /\ UNCHANGED <<attempts, calls, inflight, idx>>
       ELSE LET cand == chain.items[idx]
                avail == isProviderAvailable(API_KEYS, cand.provider)
            IN  IF avail = "true"
                THEN StartAttempt(cand, "chain", idx, "chain.wait",
                                  [pc |-> "chain", idx |-> idx + 1])
                ELSE IF avail = "false"
                THEN /\ idx' = idx + 1
                     /\ pc' = "chain"
                     /\ UNCHANGED <<attempts, calls, inflight, ret>>
                ELSE /\ pc' = "thrown"
                     /\ ret' = "TypeError"
                     /\ UNCHANGED <<attempts, calls, inflight, idx>>
    /\ UNCHANGED <<connVars, adapterVars, botVars, API_KEYS, chainTable, op, args, messages, chain, searchCalls,
                   searchInflight, searchOutcome, searchResult, winner, listed>>

\* Lines 131-135
AskAI_ChainResponse ==
    /\ op = "askAI" /\ pc = "chain.wait"
    /\ FinishAttempt(chain.items[idx], "chain", idx, [pc |-> "chain", idx |-> idx + 1])
    /\ UNCHANGED <<connVars, adapterVars, botVars, API_KEYS, chainTable, op, args, messages, chain, calls,
                   searchCalls, searchInflight, searchOutcome, searchResult, listed>>

-----------------------------------------------------------------------------

Next ==
    \/ Call_isProviderAvailable
    \/ Call_listAvailableProviders
    \/ Search_Request
    \/ Search_Response
    \/ AskAI_Compose
    \/ AskAI_Override
    \/ AskAI_OverrideResponse
    \/ AskAI_SelectChain
    \/ AskAI_ChainNext
    \/ AskAI_ChainResponse

Spec == Init /\ [][Next]_vars

-----------------------------------------------------------------------------
(* ai.js 211-412: the bot.  Every await of a handler ends a step; the      *)
(* steps of the handlers that are under way interleave.  A request to the  *)
(* store takes effect in the step that ends its await, and it may fail.    *)
(* A handler whose awaited promise is settled (the settings read has just   *)
(* returned, or getSession found the session in the cache) resumes in a     *)
(* microtask, before any other callback runs: no other handler steps while  *)
(* one is at "getSettings.cb" or "command".                                 *)

\* Lines 103-117: the message list askAI builds, given what search returned.
ComposeMessages(userMessage, useSearch, chatHistory, mode, result) ==
    LET base == << Msg("system", <<SystemPromptOf(mode)>>) >>
                \o (IF Len(chatHistory) > 0
                    THEN LastN(chatHistory, HistoryWindow) ELSE <<>>)
    IN  IF useSearch \/ mode = "search"
        THEN WithSearchAndUser(base, result, userMessage)
        ELSE Append(base, Msg("user", <<userMessage>>))

\* askAI(userMessage, useSearch, selectedProvider, selectedModel,
\* chatHistory, mode): every way the call can end, with the list it built,
\* when search returns one of `results` and a provider that answers gives
\* one of `texts`.
AskAIOutcomes(keys, table, results, texts, userMessage, useSearch, selectedProvider, selectedModel, chatHistory, mode) ==
    {[kind |-> d.kind, reply |-> d.reply, failed |-> d.failed,
      searched |-> useSearch \/ mode = "search",
      messages |-> ComposeMessages(userMessage, useSearch, chatHistory, mode, r)] :
        r \in (IF useSearch \/ mode = "search" THEN results ELSE {None}),
        d \in DispatchOutcomes(keys, table, texts, selectedProvider,
                               selectedModel, mode)}

Active(t) == t.pc \notin {"idle", "done"}

\* No handler is about to resume getSession (line 228) or handleCommand
\* (line 243).
Settled == \A h \in Handlers : turn[h].pc \notin {"getSettings.cb", "command"}

\* strftime('%s','now') at an insert: the second of the insert before it,
\* or a later one.
Now == {s \in clock..(clock + 1) : s <= StartClock + MaxTicks}

\* The local variables of a handler are gone when it has returned; what
\* stays is the record of the run: sent, steps, failed, before, overlapped.
HandlerReturned(t) ==
    [t EXCEPT !.pc = "done", !.session = Absent, !.dbSettings = NoRow,
              !.save = Absent, !.history = <<>>, !.messages = <<>>,
              !.reply = <<>>]

\* The engine's variables, which no step of the bot changes.
EngineUnchanged ==
    UNCHANGED <<API_KEYS, chainTable, op, args, pc, messages, chain, idx,
                attempts, calls, inflight, searchCalls, searchInflight,
                searchOutcome, searchResult, winner, ret, listed, adapterVars,
                connVars>>

\* The text handed to askAI and stored as the user row; the inbound texts
\* that reach the chat path are one word.
RawText(words) == words[1]

\* NextAfterSession for a handler that does not read the history.
NextAfterSession_SkipsHistory(caller) ==
    IF caller = "handleCommand" THEN "command" ELSE "addUser"

\* Where the caller of getSession goes on: handleCommand with the command
\* (line 243), the handler with db.getHistory (line 390).
NextAfterSession(caller) ==
    IF caller = "handleCommand" THEN "command" ELSE "getHistory"

\* Lines 371-383, and what the handler runs before its first await: the
\* guard of handleCommand (line 382) and the cache test of getSession
\* (line 223).  A cached session is read at the call.
Receive ==
    /\ Settled
    /\ \E event \in UpsertEvents :
       LET m == event[1]
           free == {h \in Handlers : turn[h].pc = "idle"}
       IN  /\ free # {}
           /\ LET h == CHOOSE x \in free : \A y \in free : x = "h1" \/ y # "h1"
                  cached == sessionCache[m.from] # Absent
                  caller == IF StartsWithBang(m.text) THEN "handleCommand"
                            ELSE "handler"
                  new == [IdleTurn EXCEPT
                            !.from = m.from, !.text = m.text, !.fromMe = m.fromMe,
                            !.caller = caller,
                            !.before = conversations,
                            !.overlapped = {turn[g].from : g \in
                                               {x \in Handlers : Active(turn[x])}},
                            !.session = sessionCache[m.from],
                            !.event = event,
                            !.pc = IF ~cached THEN "getSettings"
                                   ELSE NextAfterSession(caller)]
              IN  IF m.fromMe \/ m.text = <<>>
                  THEN turn' = [turn EXCEPT ![h] =
                                   [IdleTurn EXCEPT !.pc = "done", !.from = m.from,
                                                    !.text = m.text,
                                                    !.fromMe = m.fromMe,
                                                    !.event = event]]
                  ELSE turn' = [g \in Handlers |->
                                   IF g = h THEN new
                                   ELSE IF Active(turn[g])
                                   THEN [turn[g] EXCEPT !.overlapped = @ \cup {m.from}]
                                   ELSE turn[g]]
    /\ UNCHANGED <<sessionCache, user_settings, conversations, lastId, clock>>
    /\ EngineUnchanged

\* database.js getSettings: the row of the user or null; or the promise
\* rejects, which the handler catches (line 402).
DB_getSettings ==
    /\ Settled
    /\ \E h \in Handlers :
          /\ turn[h].pc = "getSettings"
          /\ \E ok \in BOOLEAN :
                turn' = [turn EXCEPT ![h] =
                            IF ok
                            THEN [turn[h] EXCEPT
                                    !.dbSettings = user_settings[turn[h].from],
                                    !.pc = "getSettings.cb"]
                            ELSE [turn[h] EXCEPT !.pc = "catch"]]
    /\ UNCHANGED <<sessionCache, user_settings, conversations, lastId, clock>>
    /\ EngineUnchanged

\* getSession lines 228-234, after the await: the session is built from
\* the row that was read, put in the cache, and returned.
GetSession_Loaded ==
    /\ \E h \in Handlers :
          /\ turn[h].pc = "getSettings.cb"
          /\ LET s == SessionFrom(turn[h].dbSettings)
             IN  /\ sessionCache' = [sessionCache EXCEPT ![turn[h].from] = s]
                 /\ turn' = [turn EXCEPT ![h] =
                                [turn[h] EXCEPT
                                   !.session = s,
                                   !.pc = NextAfterSession(turn[h].caller)]]
    /\ UNCHANGED <<user_settings, conversations, lastId, clock>>
    /\ EngineUnchanged

\* args.slice(2).join(' '); the inbound texts name a model in one word
ModelNameOf(words) == words[3]

\* handleCommand lines 243-319, from the session it got to its next await
\* or its return.  saveSession (line 237) puts the new session in the
\* cache before it awaits the store.  A text that is no command returns
\* null, and the handler goes on to line 387 with the cached session.
HandleCommand ==
    /\ \E h \in Handlers :
          /\ turn[h].pc = "command"
          /\ LET t == turn[h]
                 words == t.text
                 cmd == ToLower(words[1])
                 n == Len(words)
                 session == t.session
                 Reply(r) ==
                     /\ turn' = [turn EXCEPT ![h] =
                                    [t EXCEPT !.reply = r, !.pc = "send"]]
                     /\ UNCHANGED sessionCache
                 Goto(p) ==
                     /\ turn' = [turn EXCEPT ![h] = [t EXCEPT !.pc = p]]
                     /\ UNCHANGED sessionCache
                 Save(s) ==
                     /\ sessionCache' = [sessionCache EXCEPT ![t.from] = s]
                     /\ turn' = [turn EXCEPT ![h] =
                                    [t EXCEPT !.save = s, !.pc = "saveSettings"]]
             IN  IF cmd = "!help" THEN Reply(HelpReply(session))
                 ELSE IF cmd \in {"!status", "!stats"} THEN Goto("getStats")
                 ELSE IF cmd = "!clear" THEN Goto("clearHistory")
                 ELSE IF cmd = "!mode"
                 THEN LET mode == IF n >= 2 THEN ToLower(words[2]) ELSE NULL
                      IN  IF ~Truthy(mode) THEN Reply(ModeShowReply(session))
                          ELSE IF mode \notin ValidModes THEN Reply(ModeInvalidReply)
                          ELSE Save(Session(session.provider, session.model, mode))
                 ELSE IF cmd = "!search"
                 THEN (IF n = 1 THEN Reply(SearchUsageReply) ELSE Goto("search"))
                 ELSE IF cmd = "!set" /\ n = 1
                 THEN Reply(ProviderListReply(API_KEYS, session))
                 ELSE IF cmd = "!set" /\ n = 2
                 THEN LET providerName == ToLower(words[2])
                      IN  IF PROVIDERS(providerName) = "undefined"
                          THEN Reply(NoProviderReply(providerName))
                          ELSE IF PROVIDERS(providerName) = "inherited"
                          THEN Goto("catch")
                          ELSE Reply(ModelListReply(providerName, session))
                 ELSE IF cmd = "!set" /\ n >= 3
                 THEN LET providerName == ToLower(words[2])
                          modelName == ModelNameOf(words)
                      IN  IF PROVIDERS(providerName) = "undefined"
                          THEN Reply(NoProviderReply(providerName))
                          ELSE IF PROVIDERS(providerName) = "inherited"
                          THEN Goto("catch")
                          ELSE LET validModel ==
                                      FindModel(ProviderModels[providerName], modelName)
                               IN  IF ~Truthy(validModel)
                                   THEN Reply(NoModelReply(modelName))
                                   ELSE Save(Session(providerName, validModel,
                                                     session.mode))
                 ELSE /\ turn' = [turn EXCEPT ![h] =
                                     [t EXCEPT !.caller = "handler",
                                               !.session = sessionCache[t.from],
                                               !.pc = NextAfterSession("handler")]]
                      /\ UNCHANGED sessionCache
    /\ UNCHANGED <<user_settings, conversations, lastId, clock>>
    /\ EngineUnchanged

\* database.js saveSettings, awaited by saveSession (line 238); then the
\* command returns its confirmation (lines 270 and 316).
DB_saveSettings ==
    /\ Settled
    /\ \E h \in Handlers :
          /\ turn[h].pc = "saveSettings"
          /\ LET t == turn[h]
             IN  \E ok \in BOOLEAN :
                    IF ok
                    THEN /\ user_settings' = [user_settings EXCEPT ![t.from] = t.save]
                         /\ turn' = [turn EXCEPT ![h] =
                                        [t EXCEPT
                                           !.reply =
                                              IF ToLower(t.text[1]) = "!mode"
                                              THEN ModeSetReply(t.save.mode)
                                              ELSE SetReply(t.save.provider, t.save.model),
                                           !.pc = "send"]]
                    ELSE /\ turn' = [turn EXCEPT ![h] = [t EXCEPT !.pc = "catch"]]
                         /\ UNCHANGED user_settings
    /\ UNCHANGED <<sessionCache, conversations, lastId, clock>>
    /\ EngineUnchanged

\* database.js getStats, awaited by !status (line 252) and !stats (257)
DB_getStats ==
    /\ Settled
    /\ \E h \in Handlers :
          /\ turn[h].pc = "getStats"
          /\ LET t == turn[h]
                 total == getStats(conversations, t.from)
             IN  \E ok \in BOOLEAN :
                    turn' = [turn EXCEPT ![h] =
                               IF ok
                               THEN [t EXCEPT
                                       !.reply =
                                          IF ToLower(t.text[1]) = "!status"
                                          THEN StatusReply(t.session, total,
                                                  listAvailableProviders(API_KEYS))
                                          ELSE StatsReply(total),
                                       !.pc = "send"]
                               ELSE [t EXCEPT !.pc = "catch"]]
    /\ UNCHANGED <<sessionCache, user_settings, conversations, lastId, clock>>
    /\ EngineUnchanged

\* database.js clearHistory, awaited by !clear (line 262)
DB_clearHistory ==
    /\ Settled
    /\ \E h \in Handlers :
          /\ turn[h].pc = "clearHistory"
          /\ LET t == turn[h]
                 keep(r) == r.user_id # t.from
             IN  \E ok \in BOOLEAN :
                    IF ok
                    THEN /\ conversations' = SelectSeq(conversations, keep)
                         /\ turn' = [turn EXCEPT ![h] =
                                        [t EXCEPT !.reply = ClearReply, !.pc = "send"]]
                    ELSE /\ turn' = [turn EXCEPT ![h] = [t EXCEPT !.pc = "catch"]]
                         /\ UNCHANGED conversations
    /\ UNCHANGED <<sessionCache, user_settings, lastId, clock>>
    /\ EngineUnchanged

\* !search lines 274-279: search(query) returns a text or null
Command_Search ==
    /\ Settled
    /\ \E h \in Handlers :
          /\ turn[h].pc = "search"
          /\ \E result \in BotSearchResults :
                turn' = [turn EXCEPT ![h] =
                            [turn[h] EXCEPT !.reply = SearchReply(result),
                                            !.pc = "send"]]
    /\ UNCHANGED <<sessionCache, user_settings, conversations, lastId, clock>>
    /\ EngineUnchanged

\* Line 390: db.getHistory(from, 10)
DB_getHistory ==
    /\ Settled
    /\ \E h \in Handlers :
          /\ turn[h].pc = "getHistory"
          /\ LET t == turn[h]
             IN  \/ \E history \in getHistory(conversations, t.from, HistoryLimit) :
                       turn' = [turn EXCEPT ![h] =
                                   [t EXCEPT !.history = history,
                                             !.steps = Append(@, "history"),
                                             !.pc = "addUser"]]
                 \/ turn' = [turn EXCEPT ![h] = [t EXCEPT !.pc = "catch"]]
    /\ UNCHANGED <<sessionCache, user_settings, conversations, lastId, clock>>
    /\ EngineUnchanged

\* UserRow with the role of the reply.
UserRow_AsAssistant(id, t, now) ==
    Row(id, t.from, "assistant", <<RawText(t.text)>>, now)

\* The rows of lines 393 and 398, as database.js addMessage inserts them.
UserRow(id, t, now) == Row(id, t.from, "user", <<RawText(t.text)>>, now)

\* ReplyRow storing the apology whatever askAI returned.
ReplyRow_Apology(id, t, now) == Row(id, t.from, "assistant", <<APOLOGY>>, now)

ReplyRow(id, t, now) == Row(id, t.from, "assistant", t.reply, now)

\* Line 393: db.addMessage(from, 'user', text); database.js addMessage
DB_addUserMessage ==
    /\ Settled
    /\ \E h \in Handlers :
          /\ turn[h].pc = "addUser"
          /\ LET t == turn[h]
             IN  \E ok \in BOOLEAN :
                    IF ok
                    THEN /\ \E now \in Now :
                               /\ conversations' =
                                     Append(conversations, UserRow(lastId + 1, t, now))
                               /\ clock' = now
                         /\ lastId' = lastId + 1
                         /\ turn' = [turn EXCEPT ![h] =
                                        [t EXCEPT !.steps = Append(@, "persist.user"),
                                                  !.pc = "askAI"]]
                    ELSE /\ turn' = [turn EXCEPT ![h] = [t EXCEPT !.pc = "catch"]]
                         /\ UNCHANGED <<conversations, lastId, clock>>
    /\ UNCHANGED <<sessionCache, user_settings>>
    /\ EngineUnchanged

\* Line 395: askAI(text, session.mode === 'search', session.provider,
\* session.model, history, session.mode), from its call to its return
Chat_AskAI ==
    /\ Settled
    /\ \E h \in Handlers :
          /\ turn[h].pc = "askAI"
          /\ LET t == turn[h]
             IN  \E o \in AskAIOutcomes(API_KEYS, chainTable, BotSearchResults,
                                        BotReplyTexts, RawText(t.text),
                                        t.session.mode = "search",
                                        t.session.provider, t.session.model,
                                        t.history, t.session.mode) :
                    turn' = [turn EXCEPT ![h] =
                               IF o.kind = "return"
                               THEN [t EXCEPT
                                       !.messages = o.messages,
                                       !.reply = <<o.reply>>,
                                       !.failed = o.failed,
                                       !.steps = @ \o <<"compose">>
                                                 \o (IF o.searched THEN <<"search">>
                                                     ELSE <<>>)
                                                 \o <<"dispatch">>,
                                       !.pc = "addAssistant"]
                               ELSE [t EXCEPT !.pc = "catch"]]
    /\ UNCHANGED <<sessionCache, user_settings, conversations, lastId, clock>>
    /\ EngineUnchanged

\* Line 398: db.addMessage(from, 'assistant', reply)
DB_addAssistantMessage ==
    /\ Settled
    /\ \E h \in Handlers :
          /\ turn[h].pc = "addAssistant"
          /\ LET t == turn[h]
             IN  \E ok \in BOOLEAN :
                    IF ok
                    THEN /\ \E now \in Now :
                               /\ conversations' =
                                     Append(conversations, ReplyRow(lastId + 1, t, now))
                               /\ clock' = now
                         /\ lastId' = lastId + 1
                         /\ turn' = [turn EXCEPT ![h] =
                                        [t EXCEPT !.steps = Append(@, "persist.reply"),
                                                  !.pc = "send"]]
                    ELSE /\ turn' = [turn EXCEPT ![h] = [t EXCEPT !.pc = "catch"]]
                         /\ UNCHANGED <<conversations, lastId, clock>>
    /\ UNCHANGED <<sessionCache, user_settings>>
    /\ EngineUnchanged

\* Lines 384 and 400: sock.sendMessage(from, { text: reply }), and the
\* handler returns
SendMessage ==
    /\ Settled
    /\ \E h \in Handlers :
          /\ turn[h].pc = "send"
          /\ turn' = [turn EXCEPT ![h] =
                         HandlerReturned([turn[h] EXCEPT
                                      !.sent = Append(@, turn[h].reply),
                                      !.steps = Append(@, "respond")])]
    /\ UNCHANGED <<sessionCache, user_settings, conversations, lastId, clock>>
    /\ EngineUnchanged

\* Lines 402-405: the catch block sends the error text
Handler_Catch ==
    /\ Settled
    /\ \E h \in Handlers :
          /\ turn[h].pc = "catch"
          /\ turn' = [turn EXCEPT ![h] =
                         HandlerReturned([turn[h] EXCEPT
                                      !.sent = Append(@, ERROR_TEXT),
                                      !.steps = Append(@, "respond.error")])]
    /\ UNCHANGED <<sessionCache, user_settings, conversations, lastId, clock>>
    /\ EngineUnchanged

BotNext ==
    \/ Receive
    \/ DB_getSettings
    \/ GetSession_Loaded
    \/ HandleCommand
    \/ DB_saveSettings
    \/ DB_getStats
    \/ DB_clearHistory
    \/ Command_Search
    \/ DB_getHistory
    \/ DB_addUserMessage
    \/ Chat_AskAI
    \/ DB_addAssistantMessage
    \/ SendMessage
    \/ Handler_Catch

SpecBot == BotInit /\ [][BotNext]_vars

-----------------------------------------------------------------------------
(* ai.js 6-79: the adapters, called directly with a canonical message list *)

\* An optional value of a local variable: <<>> for null or undefined,
\* <<v>> for the value v.
Nothing == <<>>
Some(v) == <<v>>

\* `x || ''` and `if (x)` for an optional text: the text, '' when there is
\* none.
TextOr(opt) == IF opt = Nothing THEN <<>> ELSE opt[1]

Header(name, value) == <<name, value>>

\* The providers tryProvider hands to openAIRequest (lines 94-95), with
\* provider.endpoint and provider.extraHeaders of providers.js.
OpenAIEndpoints ==
    [groq |-> "https://api.groq.com/openai/v1/chat/completions",
     openrouter |-> "https://openrouter.ai/api/v1/chat/completions",
     pollinations |-> "https://gen.pollinations.ai/v1/chat/completions"]

ExtraHeaders(providerName) ==
    IF providerName = "openrouter"
    THEN {Header("HTTP-Referer", <<"https://wa-bot.local">>),
          Header("X-Title", <<"WA AI Bot">>)}
    ELSE {}

\* What an adapter hands to axios.post, and the adapter that returns
\* before it builds a request.
Request(endpoint, headers, body, timeout) ==
    [sent |-> TRUE, endpoint |-> endpoint, headers |-> headers, body |-> body,
     timeout |-> timeout]

NoRequest ==
    [sent |-> FALSE, endpoint |-> <<>>, headers |-> {}, body |-> <<>>, timeout |-> 0]

\* Lines 6-11
openAIRequest(endpoint, apiKey, model, msgs, extraHeaders) ==
    Request(<<endpoint>>,
            {Header("Content-Type", <<"application/json">>)}
                \cup extraHeaders
                \cup (IF Truthy(apiKey)
                      THEN {Header("Authorization", <<"Bearer ", apiKey>>)}
                      ELSE {}),
            [model |-> model, messages |-> msgs, temperature |-> "0.7",
             max_tokens |-> 4096],
            60000)

\* Lines 19-24: the loop over the messages, from message i on; every system
\* message is assigned to systemInstruction, every other message is pushed.
RECURSIVE GeminiLoop(_, _, _, _)
GeminiLoop(msgs, i, contents, systemInstruction) ==
    IF i > Len(msgs) THEN [contents |-> contents, systemInstruction |-> systemInstruction]
    ELSE IF msgs[i].role = "system"
         THEN GeminiLoop(msgs, i + 1, contents, Some(msgs[i].content))
         ELSE GeminiLoop(msgs, i + 1,
                         Append(contents,
                                [role |-> IF msgs[i].role = "user" THEN "user" ELSE "model",
                                 parts |-> << [text |-> msgs[i].content] >>]),
                         systemInstruction)

\* Lines 15-27
geminiRequest(keys, model, msgs) ==
    IF ~Truthy(keys["gemini"]) THEN NoRequest
    ELSE LET l == GeminiLoop(msgs, 1, <<>>, Nothing)
             payload == [contents |-> l.contents,
                         generationConfig |-> [temperature |-> "0.7",
                                               maxOutputTokens |-> 4096]]
         IN  Request(<<"https://generativelanguage.googleapis.com/v1beta/models/",
                       model, ":generateContent?key=", keys["gemini"]>>,
                     {Header("Content-Type", <<"application/json">>)},
                     IF TextOr(l.systemInstruction) # <<>>
                     THEN payload @@ ("systemInstruction" :>
                             [parts |-> << [text |-> l.systemInstruction[1]] >>])
                     ELSE payload,
                     60000)

\* Lines 31-41
cohereRequest(keys, model, msgs) ==
    IF ~Truthy(keys["cohere"]) THEN NoRequest
    ELSE LET cohereMessages ==
                [i \in DOMAIN msgs |->
                    [role |-> IF msgs[i].role = "assistant" THEN "assistant"
                              ELSE IF msgs[i].role = "system" THEN "system"
                              ELSE "user",
                     content |-> msgs[i].content]]
         IN  Request(<<"https://api.cohere.ai/v2/chat">>,
                     {Header("Authorization", <<"Bearer ", keys["cohere"]>>),
                      Header("X-Client-Name", <<"wa-bot">>)},
                     [model |-> model, messages |-> cohereMessages,
                      temperature |-> "0.7", max_tokens |-> 4096],
                     60000)

\* Lines 45-52
cloudflareRequest(keys, model, msgs) ==
    IF ~Truthy(keys["cloudflare"]) \/ ~Truthy(keys["cloudflareAccount"])
    THEN NoRequest
    ELSE Request(<<"https://api.cloudflare.com/client/v4/accounts/",
                   keys["cloudflareAccount"], "/ai/run/", model>>,
                 {Header("Authorization", <<"Bearer ", keys["cloudflare"]>>)},
                 [messages |-> msgs, max_tokens |-> 4096],
                 60000)

\* messages.find(m => m.role === 'system')?.content
FindSystem(msgs) ==
    LET hits == {i \in DOMAIN msgs : msgs[i].role = "system"}
    IN  IF hits = {} THEN Nothing
        ELSE Some(msgs[CHOOSE i \in hits : \A j \in hits : i <= j].content)

\* Lines 55-60
mlvocaRequest(model, msgs) ==
    LET prompt == TextOr(IF Len(msgs) = 0 THEN Nothing
                         ELSE Some(msgs[Len(msgs)].content))
        sys == TextOr(FindSystem(msgs))
    IN  Request(<<"https://mlvoca.com/api/generate">>, {},
                [model |-> model,
                 prompt |-> IF sys # <<>> THEN sys \o <<"\n\n">> \o prompt
                            ELSE prompt,
                 stream |-> FALSE],
                60000)

\* model.startsWith(prefix), for the models of PROVIDERS.puter
StartsWith(model, prefix) ==
    \/ prefix = "claude" /\ model \in {"claude-sonnet-4", "claude-3-5-sonnet"}
    \/ prefix = "google/" /\ model \in {"google/gemini-2.5-flash", "google/gemini-2.5-pro"}
    \/ prefix = "x-ai/" /\ model \in {"x-ai/grok-3", "x-ai/grok-3-mini"}
    \/ prefix = "deepseek" /\ model \in {"deepseek/deepseek-r1", "deepseek/deepseek-chat"}
    \/ prefix = "meta-llama" /\ model = "meta-llama/llama-3.3-70b-instruct"
    \/ prefix = "perplexity" /\ model \in {"perplexity/sonar", "perplexity/sonar-pro"}

\* Lines 67-73
PuterDriver(model) ==
    IF StartsWith(model, "claude") THEN "anthropic"
    ELSE IF StartsWith(model, "google/") \/ StartsWith(model, "gemini")
         THEN "google-vertex"
    ELSE IF StartsWith(model, "x-ai/") \/ StartsWith(model, "grok") THEN "xai"
    ELSE IF StartsWith(model, "deepseek") THEN "deepseek"
    ELSE IF StartsWith(model, "meta-llama") \/ StartsWith(model, "llama")
         THEN "together"
    ELSE IF StartsWith(model, "perplexity") THEN "perplexity"
    ELSE "openai-completion"

\* Lines 64-78
puterRequest(keys, model, msgs) ==
    IF ~Truthy(keys["puter"]) THEN NoRequest
    ELSE Request(<<"https://api.puter.com/drivers/call">>,
                 {Header("Authorization", <<"Bearer ", keys["puter"]>>),
                  Header("Origin", <<"https://puter.com">>)},
                 [interface |-> "puter-chat-completion",
                  driver |-> PuterDriver(model), test_mode |-> FALSE,
                  method |-> "complete",
                  args |-> [messages |-> msgs, model |-> model, stream |-> FALSE]],
                 90000)

\* The inputs of the adapters: the credentials all set or all unset, lists
\* as askAI composes them (without and with history, and in mode search with
\* a search context), one or more models of each provider.
MaxCalls == 2

AdapterKeyConfigs == {[k \in KeyNames |-> v] : v \in {"", "secret"}}

PriorTurn == << Msg("user", <<"hi">>), Msg("assistant", <<"hello!">>) >>

CanonicalLists ==
    {ComposeMessages("hello", FALSE, <<>>, "normal", None),
     ComposeMessages("hello", FALSE, PriorTurn, "reasoning", None),
     ComposeMessages("hello", FALSE, PriorTurn, "search", <<"result">>)}

AdapterModels ==
    [groq |-> {"llama-3.3-70b-versatile"},
     openrouter |-> {"openrouter/free"},
     pollinations |-> {"openai"},
     gemini |-> {"gemini-2.5-flash"},
     cohere |-> {"command-a-08-2025"},
     cloudflare |-> {"@cf/meta/llama-3.1-8b-instruct"},
     mlvoca |-> {"tinyllama"},
     puter |-> {"gpt-4o-mini", "claude-sonnet-4", "meta-llama/llama-3.3-70b-instruct"}]

\* What the transport answers: an error, or a body with the reply text.
AdapterResponses ==
    {[status |-> "error", content |-> NULL],
     [status |-> "ok", content |-> "hi there"]}

AdapterInit ==
    /\ EngineIdle
    /\ BotIdle
    /\ API_KEYS \in AdapterKeyConfigs

\* One invocation of an adapter, from its call to its return: the request
\* it posted, if any, and `<reply field> || null` of the response, null
\* when the adapter returned before posting.
Invocation(providerName, model, msgs, request, resp) ==
    [input |-> [provider |-> providerName, model |-> model, messages |-> msgs],
     request |-> request,
     result |-> IF request.sent THEN ResultOf(resp) ELSE NULL]

Invoke(providerName, model, msgs, request, resp) ==
    /\ Len(outbound) < MaxCalls
    /\ outbound' = Append(outbound,
                          Invocation(providerName, model, msgs, request, resp))
    /\ UNCHANGED <<botVars, connVars>>
    /\ UNCHANGED <<API_KEYS, chainTable, op, args, pc, messages, chain, idx,
                   attempts, calls, inflight, searchCalls, searchInflight,
                   searchOutcome, searchResult, winner, ret, listed>>

\* Call_openAIRequest whose messages array is shared with the call before.
Call_openAIRequest_SharedMessages ==
    \E providerName \in DOMAIN OpenAIEndpoints :
       \E model \in AdapterModels[providerName], msgs \in CanonicalLists,
          resp \in AdapterResponses :
          Invoke(providerName, model, msgs,
                 openAIRequest(OpenAIEndpoints[providerName],
                               ProviderKey(API_KEYS, providerName), model,
                               (IF outbound = <<>> THEN <<>>
                                ELSE outbound[Len(outbound)].input.messages) \o msgs,
                               ExtraHeaders(providerName)),
                 resp)

\* tryProvider lines 93-95, for a provider without an adapter of its own
Call_openAIRequest ==
    \E providerName \in DOMAIN OpenAIEndpoints :
       \E model \in AdapterModels[providerName], msgs \in CanonicalLists,
          resp \in AdapterResponses :
          Invoke(providerName, model, msgs,
                 openAIRequest(OpenAIEndpoints[providerName],
                               ProviderKey(API_KEYS, providerName), model, msgs,
                               ExtraHeaders(providerName)),
                 resp)

Call_geminiRequest ==
    \E model \in AdapterModels["gemini"], msgs \in CanonicalLists,
       resp \in AdapterResponses :
       Invoke("gemini", model, msgs, geminiRequest(API_KEYS, model, msgs), resp)

Call_cohereRequest ==
    \E model \in AdapterModels["cohere"], msgs \in CanonicalLists,
       resp \in AdapterResponses :
       Invoke("cohere", model, msgs, cohereRequest(API_KEYS, model, msgs), resp)

Call_cloudflareRequest ==
    \E model \in AdapterModels["cloudflare"], msgs \in CanonicalLists,
       resp \in AdapterResponses :
       Invoke("cloudflare", model, msgs, cloudflareRequest(API_KEYS, model, msgs), resp)

Call_mlvocaRequest ==
    \E model \in AdapterModels["mlvoca"], msgs \in CanonicalLists,
       resp \in AdapterResponses :
       Invoke("mlvoca", model, msgs, mlvocaRequest(model, msgs), resp)

Call_puterRequest ==
    \E model \in AdapterModels["puter"], msgs \in CanonicalLists,
       resp \in AdapterResponses :
       Invoke("puter", model, msgs, puterRequest(API_KEYS, model, msgs), resp)

AdapterNext ==
    \/ Call_openAIRequest
    \/ Call_geminiRequest
    \/ Call_cohereRequest
    \/ Call_cloudflareRequest
    \/ Call_mlvocaRequest
    \/ Call_puterRequest

SpecAdapters == AdapterInit /\ [][AdapterNext]_vars

-----------------------------------------------------------------------------
(* ai.js 322-369 and 412: connectWhatsApp and its connection.update handler *)

MAX_RECONNECT == 10

\* baileys DisconnectReason, the status codes a close can carry; 0 stands
\* for a close without one (lastDisconnect?.error?.output?.statusCode is
\* undefined).
DisconnectReason ==
    [loggedOut |-> 401, connectionClosed |-> 428, timedOut |-> 408,
     restartRequired |-> 515]
CloseStatuses == {0, 401, 408, 428, 515}

\* A connection.update event: update.connection, the status code of
\* update.lastDisconnect and whether update.qr is set.
Update(connection, statusCode, qr) ==
    [connection |-> connection, statusCode |-> statusCode, qr |-> qr]

\* The updates a socket emits: QR codes and progress while it connects, one
\* open, and one close, after which it emits nothing.
Emittable(s) ==
    IF s.state = "connecting"
    THEN {Update("undefined", 0, TRUE), Update("connecting", 0, FALSE),
          Update("open", 0, FALSE)}
         \cup {Update("close", c, FALSE) : c \in CloseStatuses}
    ELSE IF s.state = "open"
    THEN {Update("close", c, FALSE) : c \in CloseStatuses}
    ELSE {}

\* LoggedOut for a handler that reconnects after every close.
LoggedOut_Never(statusCode) == FALSE

\* Line 349
LoggedOut(statusCode) == statusCode = DisconnectReason.loggedOut

\* ReconnectDelay without the growth by attempt.
ReconnectDelay_Flat(n) == 3000

\* Line 360: Math.min(3000 * reconnectAttempts, 30000)
ReconnectDelay(n) == IF 3000 * n < 30000 THEN 3000 * n ELSE 30000

\* How many times connectWhatsApp is called in a run.
MaxConnects == 12

\* What no step of the connection changes.
ConnFrame ==
    /\ UNCHANGED <<botVars, adapterVars>>
    /\ UNCHANGED <<API_KEYS, chainTable, op, args, pc, messages, chain, idx,
                   attempts, calls, inflight, searchCalls, searchInflight,
                   searchOutcome, searchResult, winner, ret, listed>>

ConnInit ==
    /\ EngineIdle
    /\ BotIdle
    /\ API_KEYS = BotKeys

\* Line 412: the call at module load
Start_connectWhatsApp ==
    /\ connects = 0
    /\ sock' = Socket("starting", 0, FALSE)
    /\ connects' = 1
    /\ UNCHANGED <<reconnectAttempts, timers, scheduled>>
    /\ ConnFrame

\* Line 362: a timer set by setTimeout(connectWhatsApp, delay) fires
Timer_connectWhatsApp ==
    /\ timers # <<>>
    /\ connects < MaxConnects
    /\ timers' = Tail(timers)
    /\ sock' = Socket("starting", 0, FALSE)
    /\ connects' = connects + 1
    /\ UNCHANGED <<reconnectAttempts, scheduled>>
    /\ ConnFrame

\* Lines 325-336: after the auth state is read the socket is made
\* and the handlers are registered; or the read or makeWASocket fails and
\* the call rejects.
ConnectWhatsApp_makeWASocket ==
    /\ sock.state = "starting"
    /\ \E ok \in BOOLEAN :
          sock' = [sock EXCEPT !.state = IF ok THEN "connecting" ELSE "failed"]
    /\ UNCHANGED <<reconnectAttempts, timers, scheduled, connects>>
    /\ ConnFrame

\* Lines 337-364: the connection.update handler
ConnectionUpdate ==
    /\ \E update \in Emittable(sock) :
          IF update.qr
          THEN /\ sock' = [sock EXCEPT !.qr = TRUE]
               /\ UNCHANGED <<reconnectAttempts, timers, scheduled>>
          ELSE IF update.connection = "close"
          THEN /\ sock' = [sock EXCEPT !.state = "closed",
                                       !.statusCode = update.statusCode]
               /\ IF LoggedOut(update.statusCode)
                  THEN UNCHANGED <<reconnectAttempts, timers, scheduled>>
                  ELSE LET n == reconnectAttempts + 1
                       IN  /\ reconnectAttempts' = n
                           /\ IF n > MAX_RECONNECT
                              THEN UNCHANGED <<timers, scheduled>>
                              ELSE /\ timers' = Append(timers, ReconnectDelay(n))
                                   /\ scheduled' =
                                         Append(scheduled, ReconnectDelay(n))
          ELSE IF update.connection = "open"
          THEN /\ sock' = [sock EXCEPT !.state = "open"]
               /\ reconnectAttempts' = 0
               /\ scheduled' = <<>>
               /\ UNCHANGED timers
          ELSE UNCHANGED <<reconnectAttempts, sock, timers, scheduled>>
    /\ UNCHANGED connects
    /\ ConnFrame

ConnNext ==
    \/ Start_connectWhatsApp
    \/ Timer_connectWhatsApp
    \/ ConnectWhatsApp_makeWASocket
    \/ ConnectionUpdate

SpecConn == ConnInit /\ [][ConnNext]_vars

-----------------------------------------------------------------------------
(* Properties of the dispatch in askAI *)

\* A provider the credential resolver should call available, stated from
\* the registry and the configured secrets alone.
HasCredential(p) ==
    /\ p \in ProviderNames
    /\ p \in {"pollinations", "mlvoca"} \/ API_KEYS[p] # ""

Returned == op = "askAI" /\ pc = "done"

OverrideAttempts == {i \in DOMAIN attempts : attempts[i].via = "override"}
ChainAttempts == {i \in DOMAIN attempts : attempts[i].via = "chain"}

OverrideAnswered == \E i \in OverrideAttempts : Truthy(attempts[i].result)

\* The chain candidate at position k was tried and gave no text.
FailedAt(k) ==
    \E i \in ChainAttempts : attempts[i].pos = k /\ attempts[i].result = NULL

\* The chain candidate at position k was tried, gave the text that askAI
\* returned, and is the logged winner.
WonAt(k) ==
    \E i \in ChainAttempts :
        /\ attempts[i].pos = k
        /\ attempts[i].provider = chain.items[k].provider
        /\ attempts[i].model = chain.items[k].model
        /\ Truthy(attempts[i].result)
        /\ ret = attempts[i].result
        /\ winner = chain.items[k]

\* C1: when askAI has returned and no override answered, the first chain
\* candidate that is available and has not failed is the one whose text was
\* returned and that was logged as the winner, whatever failed before it.
C1_FirstAnswerWins ==
    (Returned /\ ~OverrideAnswered) =>
        \A k \in 1..Len(chain.items) :
            ( /\ HasCredential(chain.items[k].provider)
              /\ ~FailedAt(k)
              /\ \A j \in 1..(k - 1) :
                    HasCredential(chain.items[j].provider) => FailedAt(j) )
            => WonAt(k)

\* C1 witness: the third available candidate answered after two failures
\* and an unavailable candidate in between.
C1_Witness ==
    /\ Returned /\ ~OverrideAnswered
    /\ \E k \in 1..Len(chain.items) :
          /\ WonAt(k)
          /\ Cardinality({j \in 1..(k - 1) : FailedAt(j)}) >= 2
          /\ \E j \in 1..(k - 1) : ~HasCredential(chain.items[j].provider)

\* C2: when askAI has returned and no attempt of the turn gave a text (the
\* chain had no available candidate or every attempt, the override's
\* included, failed), it returned the apology, named no winner, and nothing
\* further happens: no request is pending and no step is enabled.
C2_ExhaustedApology ==
    (Returned /\ \A i \in DOMAIN attempts : attempts[i].result = NULL) =>
        /\ ret = APOLOGY
        /\ winner = Cand(NULL, NULL)
        /\ inflight = {}
        /\ ~ENABLED Next

\* C2 witness: the apology after a failed override and failed chain attempts.
C2_Witness ==
    /\ Returned /\ ret = APOLOGY
    /\ OverrideAttempts # {}
    /\ Cardinality(ChainAttempts) >= 2

\* C3: chain candidates are tried in increasing chain position, at most one
\* request is pending at a time, and an attempt that gave a text is the last
\* thing the turn did: no request is pending or was sent after it.
C3_InOrderStopAtFirst ==
    op = "askAI" =>
        /\ \A i, j \in ChainAttempts : i < j => attempts[i].pos < attempts[j].pos
        /\ Cardinality(inflight) <= 1
        /\ \A i \in DOMAIN attempts :
              Truthy(attempts[i].result) =>
                  /\ i = Len(attempts)
                  /\ inflight = {}
                  /\ pc = "done"
        /\ Len(calls) = Cardinality({i \in DOMAIN attempts : attempts[i].called})
                        + Cardinality(inflight)

\* C3 witness: a candidate answered while available candidates were left
\* behind it in the chain, untried.
C3_Witness ==
    /\ Returned
    /\ \E k \in 1..Len(chain.items) :
          /\ WonAt(k)
          /\ \E j \in (k + 1)..Len(chain.items) :
                HasCredential(chain.items[j].provider)

\* C4: within one turn no (provider, model) is passed to tryProvider more
\* than once, the pinned override included.
C4_NoCandidateTwice ==
    op = "askAI" =>
        \A i, j \in DOMAIN attempts :
            (attempts[i].provider = attempts[j].provider
             /\ attempts[i].model = attempts[j].model) => i = j

\* C5: every provider request, pending or answered, and every tryProvider
\* invocation is for a registered provider whose credential is configured
\* (or that needs none); an override whose provider the resolver reports
\* unavailable is never tried, and the turn goes on to the chain.
C5_NoCallWhenUnavailable ==
    op = "askAI" =>
        /\ \A i \in DOMAIN calls : HasCredential(calls[i].provider)
        /\ \A c \in inflight : HasCredential(c.provider)
        /\ \A i \in DOMAIN attempts : HasCredential(attempts[i].provider)
        /\ (Truthy(args.selectedProvider) /\ Truthy(args.selectedModel)
            /\ args.selectedProvider \notin ProtoKeys
            /\ ~HasCredential(args.selectedProvider))
           => /\ OverrideAttempts = {}
              /\ pc \notin {"override.wait"}
              /\ (pc = "thrown" => ~chain.iterable)

\* C5 witness: the turn went past an unavailable registered override and
\* past an unavailable chain candidate, and then sent a request.
C5_Witness ==
    /\ op = "askAI"
    /\ args.selectedProvider \in ProviderNames
    /\ Truthy(args.selectedModel)
    /\ ~HasCredential(args.selectedProvider)
    /\ Len(calls) >= 1
    /\ \E j \in 1..(idx - 1) : ~HasCredential(chain.items[j].provider)

\* The override is supplied and its provider is available.
OverrideUsable ==
    /\ Truthy(args.selectedProvider) /\ Truthy(args.selectedModel)
    /\ HasCredential(args.selectedProvider)

ConfiguredModes == {"normal", "search", "reasoning"}

\* C6: with a usable override, the first tryProvider invocation and the
\* first request of the turn are for the override; if it gave a text that
\* text was returned and nothing else was tried; if it gave none, the chain
\* is the mode's whole static chain, scanned from its first entry with no
\* available candidate passed over; the chain table is as configured.
C6_OverrideFirst ==
    (op = "askAI" /\ OverrideUsable) =>
        /\ chainTable = FALLBACK_CHAINS
        /\ pc \in {"select", "chain", "chain.wait", "done"} => OverrideAttempts = {1}
        /\ Len(attempts) >= 1 =>
              /\ attempts[1].via = "override"
              /\ attempts[1].provider = args.selectedProvider
              /\ attempts[1].model = args.selectedModel
        /\ (Len(calls) >= 1 /\ (Len(attempts) = 0 \/ attempts[1].called)) =>
              calls[1] = Selected
        /\ OverrideAnswered =>
              /\ pc = "done"
              /\ ret = attempts[1].result
              /\ winner = Selected
              /\ Len(attempts) = 1
              /\ Len(calls) = 1
        /\ (~OverrideAnswered /\ pc \in {"chain", "chain.wait", "done"}) =>
              /\ args.mode \in ConfiguredModes => chain.items = FALLBACK_CHAINS[args.mode]
              /\ \A j \in 1..(idx - 1) :
                    HasCredential(chain.items[j].provider) => FailedAt(j)

\* C6 witness: a usable override that is also the first chain entry failed
\* and the chain was then scanned from that first entry on.
C6_Witness ==
    /\ op = "askAI" /\ OverrideUsable
    /\ ~OverrideAnswered
    /\ pc = "done"
    /\ Len(chain.items) >= 1
    /\ chain.items[1] = Selected
    /\ FailedAt(1)
    /\ \E k \in 2..Len(chain.items) : WonAt(k)

\* C7: for a mode that is not configured, the system prompt and the chain
\* that askAI selects are those of mode normal.
C7_UnknownModeIsNormal ==
    (op = "askAI" /\ args.mode \notin ConfiguredModes) =>
        /\ Len(messages) >= 1 => messages[1] = Msg("system", <<SYSTEM_PROMPTS["normal"]>>)
        /\ pc \in {"chain", "chain.wait", "done"} =>
              chain = [iterable |-> TRUE, items |-> FALLBACK_CHAINS["normal"]]

-----------------------------------------------------------------------------
(* Properties of the credential resolver *)

Range(f) == {f[i] : i \in DOMAIN f}

\* C8: isProviderAvailable(name) is true exactly for a registered name that
\* is pollinations or mlvoca or whose secret is non-empty, so never for a
\* name that is not registered; listAvailableProviders returns exactly the
\* registered names of that kind, each once.
C8_AvailableIffCredential ==
    /\ (op = "isProviderAvailable" /\ pc # "start") =>
          /\ (ret = "true") <=> HasCredential(args.name)
          /\ args.name \notin ProviderNames => ret # "true"
    /\ (op = "listAvailableProviders" /\ pc # "start") =>
          /\ Range(listed) = {n \in ProviderNames : HasCredential(n)}
          /\ \A i, j \in DOMAIN listed : listed[i] = listed[j] => i = j

\* C8 witness: a registered provider with a secret was found available while
\* the resolver was asked about it, in a configuration where another is not.
C8_Witness ==
    /\ op = "isProviderAvailable" /\ pc = "done"
    /\ ret = "true"
    /\ args.name \notin {"pollinations", "mlvoca"}
    /\ \E n \in ProviderNames : ~HasCredential(n)

-----------------------------------------------------------------------------
(* Properties of search *)

PremiumBackends == {"tavily", "brave", "serper"}
ConfiguredPremium == {b \in PremiumBackends : API_KEYS[b] # ""}

\* search was called with the query alone, as askAI and !search call it.
DefaultEngineCall ==
    \/ op = "askAI"
    \/ op = "search" /\ args.engine = "duckduckgo"

\* C9: a search called with the query alone asks every premium backend
\* whose credential is configured before it asks the free backend.
C9_PremiumBeforeFree ==
    DefaultEngineCall =>
        \A i \in DOMAIN searchCalls :
            searchCalls[i] = "duckduckgo" =>
                \A b \in ConfiguredPremium :
                    \E j \in 1..(i - 1) : searchCalls[j] = b

\* The text search should return for a DuckDuckGo body: its abstract, then
\* the texts of the first five related topics that have one.
DDGHasLine(data) ==
    \/ data.Abstract # ""
    \/ \E i \in 1..Len(data.RelatedTopics) :
          i <= MaxResultsDefault /\ data.RelatedTopics[i].Text # ""

\* C10: with no premium credential configured, search for engine
\* duckduckgo, tavily, brave or serper sends its only request to
\* DuckDuckGo, and returns the flattening of the answer, which is none
\* exactly when the request failed or the answer has no result line.
C10_FreeBackendOnly ==
    (op \in {"search", "askAI"} /\ ConfiguredPremium = {}
     /\ EngineOfCall \in {"duckduckgo", "tavily", "brave", "serper"}) =>
        /\ \A i \in DOMAIN searchCalls : searchCalls[i] = "duckduckgo"
        /\ searchInflight \subseteq {"duckduckgo"}
        /\ Len(searchCalls) <= 1
        /\ searchOutcome.status = "error" => searchResult = None
        /\ searchOutcome.status = "ok" =>
              /\ searchResult = searchDDG(searchOutcome.data, MaxResultsDefault)
              /\ (searchResult = None) <=> ~DDGHasLine(searchOutcome.data)
              /\ searchOutcome.data.Abstract # "" =>
                    SubSeq(searchResult, 1, 2) = <<"(pin) ", searchOutcome.data.Abstract>>
        /\ (op = "search" /\ pc = "done") => Len(searchCalls) = 1

\* C10 witness: search for engine tavily, no credential configured, has
\* returned a text that DuckDuckGo's answer flattened to.
C10_Witness ==
    /\ op = "search" /\ pc = "done"
    /\ args.engine = "tavily"
    /\ ConfiguredPremium = {}
    /\ searchCalls = <<"duckduckgo">>
    /\ searchResult # None

-----------------------------------------------------------------------------
(* The bot's view of askAI agrees with the steps of askAI *)

\* Every end of an askAI call under Spec is one of AskAIOutcomes: the same
\* kind of end, the same text, the same message list and as many failed
\* candidates.
AskAI_OutcomesCoverSteps ==
    (op = "askAI" /\ pc \in {"done", "thrown"}) =>
        \E o \in AskAIOutcomes(API_KEYS, chainTable, SearchResults(API_KEYS),
                               ReplyTexts, args.userMessage, args.useSearch,
                               args.selectedProvider, args.selectedModel,
                               args.chatHistory, args.mode) :
            /\ o.kind = (IF pc = "done" THEN "return" ELSE "TypeError")
            /\ o.messages = messages
            /\ o.failed = Cardinality({i \in DOMAIN attempts :
                                          attempts[i].result = NULL})
            /\ pc = "done" => o.reply = ret

-----------------------------------------------------------------------------
(* Properties of the message list and of the search step in askAI *)

\* A search-context message: the system message of line 113.
SearchContext(m) ==
    /\ m.role = "system"
    /\ Len(m.content) > 0
    /\ Head(m.content) = "Hasil pencarian:\n"

SearchContextAt == {i \in DOMAIN messages : SearchContext(messages[i])}

\* askAI has built its message list and is at or past the dispatch.
Composed ==
    /\ op = "askAI"
    /\ pc \in {"override", "override.wait", "select", "chain", "chain.wait",
               "done", "thrown"}

SearchWanted == args.useSearch \/ args.mode = "search"

\* C11: the message list askAI has built holds at most one search-context
\* system message, and when it holds one it is the second message, right
\* after the base system prompt and before every history message.
C11_SearchContextAfterPrompt ==
    Composed =>
        /\ Cardinality(SearchContextAt) <= 1
        /\ \A i \in SearchContextAt :
              /\ i = 2
              /\ \A j \in DOMAIN messages :
                    messages[j].role \in {"user", "assistant"} => i < j

\* C11, amended: the message list askAI has built holds at most one
\* search-context system message, and when it holds one it is the last but
\* one message: after the base system prompt and every history message,
\* right before the user message.
C11_SearchContextBeforeUser ==
    Composed =>
        /\ Cardinality(SearchContextAt) <= 1
        /\ \A i \in SearchContextAt :
              /\ i = Len(messages) - 1
              /\ messages[1].role = "system" /\ ~SearchContext(messages[1])
              /\ messages[Len(messages)] = Msg("user", <<args.userMessage>>)
              /\ \A j \in DOMAIN messages :
                    (j # Len(messages) /\ messages[j].role \in {"user", "assistant"})
                        => j < i

\* C11 witness: a list with the prompt, the eight newest history rows, the
\* search context and the user message.
C11_Witness ==
    /\ Composed
    /\ Len(messages) = HistoryWindow + 3
    /\ SearchContextAt = {HistoryWindow + 2}
    /\ \A j \in 2..(HistoryWindow + 1) : messages[j].role \in {"user", "assistant"}

\* C12: askAI sends a search request iff mode is search or the flag is set,
\* then exactly one and before any provider attempt; when the search gave
\* none (no result or a failure) the list holds no search-context message
\* and is the prompt, the history window and the user message; and the turn
\* does not end at the search: it ends returned, with a provider's text or
\* the apology (for a mode and an override that are no prototype names).
C12_SearchIffWantedNoneIsNoOp ==
    op = "askAI" =>
        /\ Len(searchCalls) <= 1
        /\ Len(searchCalls) = 1 => SearchWanted
        /\ pc \in {"start", "search", "search.wait"} =>
              attempts = <<>> /\ calls = <<>> /\ inflight = {}
        /\ Composed =>
              /\ searchInflight = {}
              /\ SearchWanted => Len(searchCalls) = 1
              /\ searchResult = None =>
                    /\ SearchContextAt = {}
                    /\ messages =
                         << Msg("system", <<SystemPromptOf(args.mode)>>) >>
                         \o LastN(args.chatHistory, HistoryWindow)
                         \o << Msg("user", <<args.userMessage>>) >>
        /\ Returned => ret \in ReplyTexts \cup {APOLOGY}
        /\ ( /\ ~ENABLED Next
             /\ args.mode \notin ProtoKeys
             /\ args.selectedProvider \notin ProtoKeys ) => Returned

\* C12 witness: mode search without the flag, the search failed, the
\* override was asked and failed, no candidate of the search chain is a
\* registered provider, and askAI returned the apology.
C12_Witness ==
    /\ Returned /\ args.mode = "search" /\ ~args.useSearch
    /\ Len(searchCalls) = 1
    /\ searchOutcome.status = "error" /\ searchResult = None
    /\ SearchContextAt = {}
    /\ \E i \in OverrideAttempts : attempts[i].called /\ attempts[i].result = NULL
    /\ ret = APOLOGY

\* C17: no attempt hands an error to the dispatch loop (a request that
\* failed at HTTP level or whose reply field is absent or empty gives the
\* empty result), askAI never raises, and what it returns is a non-empty
\* string.
C17_AttemptsNeverRaise ==
    op = "askAI" =>
        /\ pc # "thrown"
        /\ \A i \in DOMAIN attempts :
              attempts[i].result = NULL \/ attempts[i].result \in ReplyTexts
        /\ Returned => Truthy(ret)

-----------------------------------------------------------------------------
(* Properties of the bot's chat turns *)

AsMessages(rows) == [i \in 1..Len(rows) |-> Msg(rows[i].role, rows[i].content)]

RowsOfUser(rows, u) ==
    LET mine(r) == r.user_id = u
    IN  SelectSeq(rows, mine)

\* The history of user u, oldest row first, as role and content.
HistoryOf(rows, u) == AsMessages(RowsOfUser(rows, u))

\* No other handler of the same user was under way while this one was.
Alone(t) == t.from \notin t.overlapped

\* The prior turns a message list carries: what is neither a system
\* message nor the last message.
PriorTurns(msgs) ==
    LET turnMsg(m) == m.role \in {"user", "assistant"}
    IN  SelectSeq(SubSeq(msgs, 1, Len(msgs) - 1), turnMsg)

IsPrefix(s, full) == Len(s) <= Len(full) /\ SubSeq(full, 1, Len(s)) = s

\* The steps of a handler, without the error reply of its catch block.
StepsBeforeCatch(t) ==
    IF t.steps # <<>> /\ t.steps[Len(t.steps)] = "respond.error"
    THEN SubSeq(t.steps, 1, Len(t.steps) - 1)
    ELSE t.steps

Did(t, step) == \E i \in DOMAIN t.steps : t.steps[i] = step

\* C13: the message list of a turn (of a user with no other handler under
\* way) starts with the base system prompt of the session's mode, ends with
\* the user message, and its prior turns are the newest rows the user had
\* in the store when the turn began, at most eight, in the order in which
\* they were inserted.
C13_ContextIsRecentWindow ==
    \A h \in Handlers :
        (turn[h].messages # <<>> /\ Alone(turn[h])) =>
            LET t == turn[h]
                msgs == t.messages
            IN  /\ msgs[1] = Msg("system", <<SYSTEM_PROMPTS[t.session.mode]>>)
                /\ msgs[Len(msgs)] = Msg("user", <<RawText(t.text)>>)
                /\ PriorTurns(msgs) =
                      LastN(HistoryOf(t.before, t.from), HistoryWindow)

\* C14: the step that completes a chat turn (the reply of askAI is sent)
\* finds the history of the user, when no other handler of the user was
\* under way, to be the history at the start of the turn followed by
\* (user, inbound text) and (assistant, text sent); and, when no other
\* handler at all was under way, the table to be the table at the start
\* followed by these two rows.
C14_TurnAppendsTwoRows ==
    [][\A h \in Handlers :
          (turn[h].pc = "send" /\ turn'[h].pc = "done"
           /\ Did(turn[h], "persist.reply")) =>
              LET t == turn'[h]
                  two == << Msg("user", <<RawText(t.text)>>),
                            Msg("assistant", t.sent[1]) >>
              IN  /\ Len(t.sent) = 1
                  /\ Alone(t) =>
                        HistoryOf(conversations', t.from)
                            = HistoryOf(t.before, t.from) \o two
                  /\ t.overlapped = {} =>
                        /\ Len(conversations') = Len(t.before) + 2
                        /\ SubSeq(conversations', 1, Len(t.before)) = t.before
                        /\ HistoryOf(SubSeq(conversations', Len(t.before) + 1,
                                            Len(conversations')), t.from) = two
    ]_vars

\* C14 witness: a chat turn with no other handler under way has sent the
\* text of the third candidate, after two candidates failed, and the
\* history ends with the two rows of the turn.
C14_Witness ==
    \E h \in Handlers :
        LET t == turn[h]
        IN  /\ t.pc = "done" /\ t.overlapped = {}
            /\ Did(t, "persist.reply")
            /\ t.failed = 2
            /\ t.sent = << <<"hi there">> >>
            /\ Len(t.before) > 0
            /\ HistoryOf(conversations, t.from)
                  = HistoryOf(t.before, t.from)
                    \o << Msg("user", <<RawText(t.text)>>),
                          Msg("assistant", <<"hi there">>) >>

\* The steps of a chat turn that runs to its end: the history is read, the
\* user row is inserted, askAI composes the list, searches if the mode
\* asks for it and dispatches, the reply row is inserted, the reply is sent.
ChatSteps(searched) ==
    <<"history", "persist.user", "compose">>
    \o (IF searched THEN <<"search">> ELSE <<>>)
    \o <<"dispatch", "persist.reply", "respond">>

\* C15: in a turn no history row, neither the user row nor the reply row,
\* is written before dispatch has decided the reply, and the reply is sent
\* only after the reply row was written.
C15_PersistAfterDispatch ==
    \A h \in Handlers :
        LET t == turn[h]
        IN  \A i \in DOMAIN t.steps :
               /\ t.steps[i] \in {"persist.user", "persist.reply"} =>
                     \E j \in 1..(i - 1) : t.steps[j] = "dispatch"
               /\ (t.steps[i] = "respond" /\ Did(t, "history")) =>
                     \E j \in 1..(i - 1) : t.steps[j] = "persist.reply"

\* C15, amended: the steps of a chat turn are, in this order, read history,
\* insert the user row, compose, search (in mode search), dispatch, insert
\* the reply row, respond; a turn that fails stops there and sends the
\* error text.  So the user row is in the store before the dispatch, the
\* reply row only after it, and the reply goes out only after its row.
C15_UserRowThenDispatchThenReplyRow ==
    \A h \in Handlers :
        LET t == turn[h]
        IN  /\ t.caller = "handler" =>
                  IsPrefix(StepsBeforeCatch(t), ChatSteps(t.session.mode = "search"))
                  \/ IsPrefix(StepsBeforeCatch(t), ChatSteps(Did(t, "search")))
            /\ (Alone(t) /\ t.pc \in {"getHistory", "addUser"}) =>
                  HistoryOf(conversations, t.from) = HistoryOf(t.before, t.from)
            /\ (Alone(t) /\ t.pc \in {"askAI", "addAssistant"}) =>
                  HistoryOf(conversations, t.from)
                      = Append(HistoryOf(t.before, t.from),
                               Msg("user", <<RawText(t.text)>>))
            /\ (Alone(t) /\ t.pc = "send" /\ t.caller = "handler") =>
                  HistoryOf(conversations, t.from)
                      = HistoryOf(t.before, t.from)
                        \o << Msg("user", <<RawText(t.text)>>),
                              Msg("assistant", t.reply) >>
            /\ (t.sent # <<>> /\ t.sent # <<ERROR_TEXT>> /\ t.caller = "handler") =>
                  Did(t, "persist.reply")

\* C15 witness: a turn in mode search is at the call of askAI with its
\* user row stored, and another has sent its reply after all seven steps.
C15_Witness ==
    /\ \E h \in Handlers :
          /\ turn[h].pc = "askAI" /\ Alone(turn[h])
          /\ turn[h].steps = <<"history", "persist.user">>
          /\ HistoryOf(conversations, turn[h].from)
                = Append(HistoryOf(turn[h].before, turn[h].from),
                         Msg("user", <<RawText(turn[h].text)>>))
    /\ \E h \in Handlers :
          /\ turn[h].pc = "done"
          /\ turn[h].steps = ChatSteps(TRUE)

\* C16: an append that fails neither changes nor suppresses the reply: a
\* turn whose dispatch has decided a reply never ends in the catch block
\* but sends that reply, and a turn that has read its history reaches the
\* dispatch whether or not the insert of the user row fails.
C16_AppendFailureKeepsReply ==
    \A h \in Handlers :
        LET t == turn[h]
        IN  /\ Did(t, "dispatch") =>
                  /\ t.pc # "catch"
                  /\ t.pc = "done" => t.steps[Len(t.steps)] = "respond"
            /\ (Did(t, "history") /\ t.pc \in {"catch", "done"}) =>
                  Did(t, "dispatch")

-----------------------------------------------------------------------------
(* Properties of the sessions *)

\* The commands that change the session when they succeed: !mode with a
\* valid mode (lines 266-270), !set with a registered provider and a model
\* that find accepts (lines 305-314).
IsSetCommand(words) ==
    /\ words # <<>>
    /\ LET cmd == ToLower(words[1])
       IN  \/ cmd = "!mode" /\ Len(words) >= 2 /\ ToLower(words[2]) \in ValidModes
           \/ /\ cmd = "!set" /\ Len(words) >= 3
              /\ PROVIDERS(ToLower(words[2])) = "own"
              /\ Truthy(FindModel(ProviderModels[ToLower(words[2])],
                                  ModelNameOf(words)))

\* Handler h takes a step: every step of a handler moves its pc.
Steps(h) == turn'[h].pc # turn[h].pc

\* C18: a session that exists (in the cache or as settings row) is changed
\* only by a step of a !mode or !set command of the same user that passes
\* its validation: no step of a chat turn, of another command or of another
\* user changes the cached session or the settings row of a user.
C18_OnlySetCommandsMutate ==
    [][\A u \in Users :
          (\/ sessionCache[u] # Absent /\ sessionCache'[u] # sessionCache[u]
           \/ user_settings'[u] # user_settings[u]) =>
              \E h \in Handlers :
                 /\ Steps(h)
                 /\ turn[h].from = u
                 /\ IsSetCommand(turn[h].text)
                 /\ turn[h].pc \in {"command", "saveSettings"}
    ]_vars

\* C19: the step that creates the cached session of a user makes it from
\* the user's settings row, or from DEFAULTS when there is no row; no step
\* removes a cached session; and no handler puts what it read from the
\* store into the cache of a user whose session exists already.
C19_CreatedOnceNeverReread ==
    [][\A u \in Users :
          /\ (sessionCache[u] = Absent /\ sessionCache'[u] # Absent) =>
                sessionCache'[u] =
                   (IF user_settings[u] = NoRow THEN DEFAULTS
                    ELSE user_settings[u])
          /\ sessionCache[u] # Absent => sessionCache'[u] # Absent
          /\ \A h \in Handlers :
                (turn[h].from = u /\ turn[h].pc = "getSettings.cb" /\ Steps(h))
                   => sessionCache[u] = Absent
    ]_vars

\* C20: when every message of a user so far was a !mode or !set command
\* that passed its validation, and all of them have returned without the
\* error reply, the cached session of the user is the user's settings row.
C20_CacheEqualsStoreWhenQuiet ==
    \A u \in Users :
        LET mine == {h \in Handlers : turn[h].pc # "idle" /\ turn[h].from = u}
        IN  (/\ mine # {}
             /\ \A h \in mine :
                   /\ turn[h].pc = "done"
                   /\ IsSetCommand(turn[h].text)
                   /\ turn[h].steps = <<"respond">>)
            => sessionCache[u] = user_settings[u]

-----------------------------------------------------------------------------
(* Properties of the commands *)

\* The set commands that must be refused: !mode with a mode outside
\* ValidModes, !set with a provider name that is not registered, !set with
\* a model that matches nothing in the list of the provider.
IsInvalidSet(words) ==
    /\ words # <<>>
    /\ LET cmd == ToLower(words[1])
           n == Len(words)
       IN  \/ cmd = "!mode" /\ n >= 2 /\ ToLower(words[2]) \notin ValidModes
           \/ cmd = "!set" /\ n >= 2 /\ PROVIDERS(ToLower(words[2])) # "own"
           \/ /\ cmd = "!set" /\ n >= 3
              /\ PROVIDERS(ToLower(words[2])) = "own"
              /\ ~Truthy(FindModel(ProviderModels[ToLower(words[2])],
                                   ModelNameOf(words)))

\* The error text that names what was wrong with an invalid set command.
DescriptiveError(words) ==
    IF ToLower(words[1]) = "!mode" THEN ModeInvalidReply
    ELSE IF PROVIDERS(ToLower(words[2])) # "own"
         THEN NoProviderReply(ToLower(words[2]))
         ELSE NoModelReply(ModelNameOf(words))

\* C21: the step in which handleCommand judges an invalid set command
\* decides on the descriptive error text as the reply and changes neither
\* the cached sessions nor the settings rows; no step of the handler of
\* such a command changes a session that exists or a settings row; and the
\* handler never reaches the dispatch.
C21_InvalidSetFailsFast ==
    [][\A h \in Handlers :
          (IsInvalidSet(turn[h].text) /\ Steps(h)) =>
              /\ turn[h].pc = "command" =>
                    /\ turn'[h].pc = "send"
                    /\ turn'[h].reply = DescriptiveError(turn[h].text)
                    /\ sessionCache' = sessionCache
              /\ user_settings' = user_settings
              /\ sessionCache[turn[h].from] # Absent =>
                    sessionCache'[turn[h].from] = sessionCache[turn[h].from]
              /\ ~Did(turn'[h], "dispatch")
              /\ turn'[h].caller = "handleCommand"
    ]_vars

\* Both handlers ran chat turns of the same user to their end, the second
\* received while the first was under way.
TwoOverlappingTurns ==
    /\ \A h \in Handlers :
          /\ turn[h].pc = "done" /\ turn[h].caller = "handler"
          /\ Did(turn[h], "persist.reply") /\ Did(turn[h], "respond")
    /\ turn["h1"].from = turn["h2"].from
    /\ turn["h1"].from \in turn["h2"].overlapped

\* The rows inserted since the first of the two turns was received.
RowsSince(h) ==
    SubSeq(conversations, Len(turn[h].before) + 1, Len(conversations))

IsRowOf(r, t, role, content) ==
    r.user_id = t.from /\ r.role = role /\ r.content = content

\* C22: when two overlapping chat turns of one user have both completed,
\* the table has four rows more than when the first began, the rows before
\* are as they were, and the four are the user row and the reply row of
\* each turn, every user row before the reply row of its turn.
C22_OverlappingTurnsKeepAllRows ==
    TwoOverlappingTurns =>
        LET t1 == turn["h1"]
            t2 == turn["h2"]
            new == RowsSince("h1")
        IN  /\ SubSeq(conversations, 1, Len(t1.before)) = t1.before
            /\ Len(new) = 4
            /\ \E u1, r1, u2, r2 \in 1..4 :
                  /\ Cardinality({u1, r1, u2, r2}) = 4
                  /\ u1 < r1 /\ u2 < r2
                  /\ IsRowOf(new[u1], t1, "user", <<RawText(t1.text)>>)
                  /\ IsRowOf(new[r1], t1, "assistant", t1.sent[1])
                  /\ IsRowOf(new[u2], t2, "user", <<RawText(t2.text)>>)
                  /\ IsRowOf(new[r2], t2, "assistant", t2.sent[1])

\* C22 witness: the rows of two overlapping turns interleave, and the
\* reply row of the turn that began second comes before the reply row of
\* the turn that began first.
C22_Witness ==
    /\ TwoOverlappingTurns
    /\ turn["h1"].text = <<"hello">> /\ turn["h2"].text = <<"!foo">>
    /\ turn["h1"].sent = << <<"hi there">> >>
    /\ turn["h2"].sent = << <<APOLOGY>> >>
    /\ LET new == RowsSince("h1")
       IN  /\ Len(new) = 4
           /\ new[1].content = <<"hello">> /\ new[2].content = <<"!foo">>
           /\ new[3].content = <<APOLOGY>> /\ new[4].content = <<"hi there">>

-----------------------------------------------------------------------------
(* Properties of the adapters *)

InvocationsOf(providerName) ==
    {i \in DOMAIN outbound : outbound[i].input.provider = providerName}

\* The content of the last message of the list with the given role.
LastOfRole(msgs, role) ==
    LET hits == {i \in DOMAIN msgs : msgs[i].role = role}
    IN  msgs[CHOOSE i \in hits : \A j \in hits : j <= i].content

\* The text `part` occurs in the text `whole`.
Carries(whole, part) ==
    \E i \in 1..(Len(whole) - Len(part) + 1) :
        SubSeq(whole, i, i + Len(part) - 1) = part

C24_PromptIsLastSystemAndLastUser ==
    \A i \in InvocationsOf("mlvoca") :
        LET msgs == outbound[i].input.messages
            body == outbound[i].request.body
        IN  /\ outbound[i].request.sent
            /\ DOMAIN body = {"model", "prompt", "stream"}
            /\ body.prompt = LastOfRole(msgs, "system") \o <<"\n\n">>
                                \o LastOfRole(msgs, "user")

\* C25: the request of the gemini adapter has every message that is not a
\* system message in its contents, in the order of the list, user as user
\* and assistant as model, and the text of every system message of the
\* list in its systemInstruction.
C25_GeminiLosesNoMessage ==
    \A i \in InvocationsOf("gemini") :
        outbound[i].request.sent =>
            LET msgs == outbound[i].input.messages
                body == outbound[i].request.body
                turnMsg(m) == m.role # "system"
                rest == SelectSeq(msgs, turnMsg)
            IN  /\ body.contents =
                      [k \in DOMAIN rest |->
                          [role |-> IF rest[k].role = "assistant" THEN "model"
                                    ELSE "user",
                           parts |-> << [text |-> rest[k].content] >>]]
                /\ \A k \in DOMAIN msgs :
                      msgs[k].role = "system" =>
                          /\ "systemInstruction" \in DOMAIN body
                          /\ Carries(body.systemInstruction.parts[1].text,
                                     msgs[k].content)

-----------------------------------------------------------------------------
(* Properties of the dispatch between commands and chat *)

\* The commands handleCommand knows (lines 246-305).
Recognized(words) ==
    words # <<>> /\ ToLower(words[1]) \in
        {"!help", "!status", "!stats", "!clear", "!mode", "!search", "!set"}

Marked(words) == words # <<>> /\ words[1] \in BangWords

\* The handler returned and nothing it awaited had failed.
Completed(t) == t.pc = "done" /\ t.steps # <<>> /\ t.steps[Len(t.steps)] = "respond"

\* C26: a text with the command marker that handleCommand does not know
\* takes the steps of a chat turn (user row, dispatch, reply row, one reply
\* sent) and, with no other handler of the user under way, has its two
\* rows in the store when it sends the reply; a text that is a known command
\* never inserts a row and never reaches the dispatch (while it runs with
\* no other handler under way the table stays as it was, !clear apart),
\* and when its handler has returned exactly one text was sent.
C26_UnknownCommandIsChat ==
    \A h \in Handlers :
        LET t == turn[h]
        IN  /\ (Marked(t.text) /\ ~Recognized(t.text) /\ Completed(t)) =>
                  /\ t.steps = ChatSteps(Did(t, "search"))
                  /\ Len(t.sent) = 1 /\ t.sent # <<ERROR_TEXT>>
            /\ (Marked(t.text) /\ ~Recognized(t.text) /\ t.pc = "send" /\ Alone(t)) =>
                  HistoryOf(conversations, t.from)
                      = HistoryOf(t.before, t.from)
                        \o << Msg("user", <<RawText(t.text)>>),
                              Msg("assistant", t.reply) >>
            /\ Recognized(t.text) =>
                  /\ t.caller = "handleCommand"
                  /\ ~Did(t, "history") /\ ~Did(t, "persist.user")
                  /\ ~Did(t, "dispatch") /\ ~Did(t, "persist.reply")
                  /\ t.messages = <<>>
                  /\ t.pc = "done" => Len(t.sent) = 1
                  /\ (Active(t) /\ t.overlapped = {} /\ ToLower(t.text[1]) # "!clear") =>
                        conversations = t.before

\* C26 witness: the text !foo was answered by a provider as a chat turn,
\* with its two rows in the store, and a recognized command was answered.
C26_Witness ==
    /\ \E h \in Handlers :
          /\ turn[h].text = <<"!foo">> /\ Completed(turn[h])
          /\ turn[h].steps = ChatSteps(FALSE)
          /\ turn[h].sent = << <<"hi there">> >>
    /\ \E h \in Handlers :
          /\ turn[h].text = <<"!help">> /\ Completed(turn[h])

-----------------------------------------------------------------------------
(* Properties of the static chains *)

\* C27: for each of the modes normal, reasoning and search, every candidate
\* of the mode's chain names a registered provider and a model of that
\* provider's list, and the chain has a candidate that is available under
\* some configuration of the credentials.
C27_ChainsNameCatalogEntries ==
    \A mode \in {"normal", "reasoning", "search"} :
        LET items == chainTable[mode]
        IN  /\ \A i \in DOMAIN items :
                  /\ items[i].provider \in ProviderNames
                  /\ items[i].model \in Range(ProviderModels[items[i].provider])
            /\ \E i \in DOMAIN items, keys \in KeyConfigs :
                  isProviderAvailable(keys, items[i].provider) = "true"

-----------------------------------------------------------------------------
(* Properties of the session values *)

\* A session whose mode is one of the three modes, whose provider is
\* registered and whose model is in the list of that provider.
ValidSession(s) ==
    /\ s.mode \in {"normal", "search", "reasoning"}
    /\ s.provider \in ProviderNames
    /\ s.model \in Range(ProviderModels[s.provider])

\* C28: every cached session is valid, and so is every settings row.
C28_SessionsStayValid ==
    \A u \in Users :
        /\ sessionCache[u] # Absent => ValidSession(sessionCache[u])
        /\ user_settings[u] # NoRow => ValidSession(user_settings[u])

\* C28 witness: after !set groq llama and !mode reasoning of one user,
\* both answered, the user's session has provider groq and mode reasoning.
C28_Witness ==
    /\ \A h \in Handlers : Completed(turn[h]) /\ turn[h].from = "u1"
    /\ \E h \in Handlers : turn[h].text = <<"!set", "groq", "llama">>
    /\ \E h \in Handlers : turn[h].text = <<"!mode", "reasoning">>
    /\ sessionCache["u1"].provider = "groq"
    /\ sessionCache["u1"].mode = "reasoning"
    /\ user_settings["u1"] = sessionCache["u1"]

\* The model a !set command names is, as typed, an identifier of the list
\* of the provider it names.
NamesListedModel(words) ==
    /\ Len(words) >= 3 /\ ToLower(words[1]) = "!set"
    /\ PROVIDERS(ToLower(words[2])) = "own"
    /\ ModelNameOf(words) \in Range(ProviderModels[ToLower(words[2])])

\* C29: a !set command whose model string is an identifier of the provider's
\* list saves a session with exactly that model.
C29_ExactMatchWins ==
    \A h \in Handlers :
        (turn[h].pc = "saveSettings" /\ NamesListedModel(turn[h].text)) =>
            /\ turn[h].save.model = ModelNameOf(turn[h].text)
            /\ turn[h].save.provider = ToLower(turn[h].text[2])

\* C30: when a !mode command and a !set provider model command of one user
\* have both been answered, the user's session has the mode of the one and
\* the provider and model of the other.
C30_BothUpdatesSurvive ==
    \A hm, hs \in Handlers :
        LET m == turn[hm]
            s == turn[hs]
        IN  (/\ Completed(m) /\ Completed(s) /\ m.from = s.from
             /\ IsSetCommand(m.text) /\ ToLower(m.text[1]) = "!mode"
             /\ IsSetCommand(s.text) /\ ToLower(s.text[1]) = "!set")
            => /\ sessionCache[m.from].mode = ToLower(m.text[2])
               /\ sessionCache[m.from].provider = ToLower(s.text[2])
               /\ sessionCache[m.from].model =
                     FindModel(ProviderModels[ToLower(s.text[2])], ModelNameOf(s.text))

\* C31: a !mode or !set command whose settings write failed has reported
\* no success, and (with no other handler of the user under way) the
\* cached session of the user is the one the command started from.
C31_FailedWriteLeavesSession ==
    \A h \in Handlers :
        LET t == turn[h]
        IN  (t.pc = "catch" /\ t.save # Absent) =>
                /\ t.sent = <<>>
                /\ Alone(t) => sessionCache[t.from] = t.session

IsClearCommand(words) == words # <<>> /\ ToLower(words[1]) = "!clear"

\* The history rows of the users other than u.
RowsOfOthers(rows, u) ==
    LET other(r) == r.user_id # u
    IN  SelectSeq(rows, other)

\* C32: no step of a !clear handler changes a settings row, a cached
\* session that exists, or a history row of another user, and the step in
\* which its DELETE succeeds leaves no history row of its user; no step of
\* a !mode or !set command that passes its validation changes the history.
C32_SettingsAndHistoryIndependent ==
    [][\A h \in Handlers :
          Steps(h) =>
             LET t == turn'[h]
             IN  /\ IsClearCommand(t.text) =>
                       /\ user_settings' = user_settings
                       /\ \A u \in Users :
                             sessionCache[u] # Absent =>
                                sessionCache'[u] = sessionCache[u]
                       /\ RowsOfOthers(conversations', t.from) =
                             RowsOfOthers(conversations, t.from)
                       /\ (turn[h].pc = "clearHistory" /\ t.pc = "send") =>
                             RowsOfUser(conversations', t.from) = <<>>
                 /\ IsSetCommand(t.text) => conversations' = conversations
    ]_vars

\* The message has a text and is not from the bot itself (lines 373-377).
NeedsReply(m) == ~m.fromMe /\ m.text # <<>>

\* The texts a handler sent in reply to the i-th message of its event: the
\* handler reads messages[0] and nothing else of the array (line 372).
RepliesTo(t, i) == IF i = 1 THEN t.sent ELSE <<>>

\* C33: no handler sends two texts, and when the handler of an event has
\* returned, every message of the event that has a text and is not from the
\* bot itself was answered with exactly one text.
C33_ExactlyOneReply ==
    \A h \in Handlers :
        /\ Len(turn[h].sent) <= 1
        /\ turn[h].pc = "done" =>
              \A i \in DOMAIN turn[h].event :
                 NeedsReply(turn[h].event[i]) => Len(RepliesTo(turn[h], i)) = 1

\* A step in which a connection opens, one in which a socket closes, and
\* one in which a reconnect is scheduled.
Opens == sock.state # "open" /\ sock'.state = "open"
Closes == sock.state # "closed" /\ sock'.state = "closed"
Schedules == Len(timers') > Len(timers)

\* C34: at most 10 reconnects are scheduled between two opens; every open
\* sets the counter to 0; the k-th reconnect scheduled since the last open
\* is delayed by min(3000*k, 30000) ms; and once the counter is above 10 it
\* stays above 10 and no reconnect is scheduled, until a connection opens.
C34_ReconnectBounded ==
    [][/\ Len(scheduled') <= 10
       /\ Opens => reconnectAttempts' = 0
       /\ Schedules =>
             LET k == Len(scheduled')
             IN  /\ timers' = Append(timers, scheduled'[k])
                 /\ scheduled' = Append(scheduled, scheduled'[k])
                 /\ scheduled'[k] = (IF 3000 * k < 30000 THEN 3000 * k ELSE 30000)
       /\ (reconnectAttempts > 10 /\ ~Opens) =>
             /\ ~Schedules
             /\ reconnectAttempts' > 10
    ]_vars

\* Ten reconnects in a row were scheduled and the eleventh close was not
\* followed by another.
C34_Witness ==
    /\ reconnectAttempts > 10
    /\ Len(scheduled) = 10
    /\ sock.state = "closed"
    /\ timers = <<>>

\* C35: a close with the logged-out status schedules no reconnect and
\* leaves the counter as it is; a close with any other status (or none)
\* schedules one reconnect, unless the counter has then gone above 10.
C35_LoggedOutStopsReconnect ==
    [][Closes =>
          IF sock'.statusCode = 401
          THEN timers' = timers /\ reconnectAttempts' = reconnectAttempts
          ELSE \/ Len(timers') = Len(timers) + 1
               \/ reconnectAttempts' > 10 /\ timers' = timers
    ]_vars

\* A socket closed with the logged-out status after reconnects had been
\* counted, and nothing is scheduled.
C35_Witness ==
    /\ sock.state = "closed"
    /\ sock.statusCode = 401
    /\ reconnectAttempts > 0
    /\ timers = <<>>

====
